---- MODULE Spec2Model ----
(***************************************************************************)
(* A model of hydrocarbon's postgres store (package pg): the scrape        *)
(* lifecycle (AddFeed, FindMissingSchedules, InsertSchedule, StartScrapes, *)
(* EndScrape, ErrorScrape), the post write and read paths (Write,          *)
(* GetFeedPosts, GetPost, MarkRead), login tokens and sessions; of the     *)
(* AddFeed and RemoveFeed handlers of the feed API; and of the task tree   *)
(* of the fictionpress plugin.                                             *)
(* Every SQL statement that runs outside a transaction is one atomic       *)
(* action; the statements of a transaction are separate actions whose      *)
(* effects become visible at commit (READ COMMITTED).                      *)
(***************************************************************************)
EXTENDS Integers, Sequences, FiniteSets, TLC

(***************************************************************************)
(* Bounds of the model.                                                    *)
(***************************************************************************)
MaxFeeds == 2
MaxScrapes == 3
C4Scrapes == 5
C4Limit == 10
MaxTokens == 2
MaxChapters == 3

(***************************************************************************)
(* Program constants.                                                      *)
(***************************************************************************)
MaxErrors == 3
LatestLimit == 10
maxFailedResolutions == 8

(***************************************************************************)
(* A nullable timestamp is <<>> (NULL) or <<t>>.  Ids are the positions of *)
(* the rows in their table; NoID is the empty string of the Go code.       *)
(***************************************************************************)
NULL == <<>>
NoID == 1 - 1

Times == {0, 1, 2}
Workers == {"w1", "w2"}
Writers == {"x1", "x2"}
Schedulers == {"s1", "s2"}
Limits == {1, 2}
ScheduleLens == {0, 1, 2}

Plugins == {"p1"}
URLs == {"u1"}
Configs == {"c1"}
Titles == {"t1"}
Keys == {"k1"}
Counters == {<<2, 1, 3>>}
Errs == {"e1"}

(***************************************************************************)
(* The facts handlers emit: posts, and one fact that is no                 *)
(* *hydrocarbon.Post.                                                      *)
(***************************************************************************)
NoFact == [Kind |-> "", Title |-> "", Author |-> "", Body |-> "",
           OriginalURL |-> "", PostedAt |-> 0]

PostFacts ==
    [Kind : {"Post"}, Title : {"A", "B"}, Author : {"au"}, Body : {"x"},
     OriginalURL : {"u1", "u2"}, PostedAt : {0}]

OtherFact == [NoFact EXCEPT !.Kind = "other"]

Facts == PostFacts \cup {OtherFact}

NoArgs == [scrapeID |-> NoID, f |-> NoFact]

Callers == {"a1", "a2"}
NoRequest == [key |-> "", FolderID |-> NoID, URL |-> "", Title |-> "", Config |-> ""]

DefaultFolderName == "default"
DefaultScrapeState == "WAITING"

VARIABLES
    now,          \* the database clock, now()
    sessions,     \* table sessions: key -> [user_id, active]
    folders,      \* table folders: sequence of rows, id = index
    feeds,        \* table feeds: sequence of rows, id = index
    feedFolders,  \* table feed_folders: set of <<user_id, folder_id, feed_id>>
    scrapes,      \* table scrapes (committed versions): sequence of rows, id = index
    pc,           \* StartScrapes: position of each worker's call
    txNow,        \* StartScrapes: now() of the open transaction (its start time)
    txLimit,      \* StartScrapes: the limit argument of the call
    snap,         \* StartScrapes: number of rows the SELECT's snapshot contains
    visited,      \* StartScrapes: rows the SELECT has examined so far
    ids,          \* StartScrapes: rows selected and locked FOR UPDATE
    ss,           \* StartScrapes: rows the UPDATE returned
    claims,       \* history: per scrape id, the workers StartScrapes returned it to
    spc,          \* scheduler loop: position
    requests,     \* scheduler loop: feed ids FindMissingSchedules returned
    sr,           \* scheduler loop: the ScheduleRequest being inserted
    pending,      \* scheduler loop: schedules InsertSchedule has still to insert
    posts,        \* table posts (committed versions): sequence of rows, id = index
    wpc,          \* Write: position of each caller
    wargs,        \* Write: the scrape id and the post of the call
    apc,          \* FeedAPI.AddFeed: position of each request
    areq,         \* FeedAPI.AddFeed: the key, folder_id and url of the request
    blacklist,    \* FeedAPI.AddFeed: blacklist
    aplugin,      \* FeedAPI.AddFeed: plugin, as PluginForEntrypoint returned it
    attempts,     \* history: the plugins whose ConfigCreator the request has called
    loginTokens,  \* table login_tokens: sequence of rows, token = index
    activated,    \* history: per token, the ActivateLoginToken calls that succeeded
    readStatuses, \* table read_statuses: set of <<user_id, post_id>>
    reported,     \* scrape runner: the claimed scrapes whose outcome is reported
    chapters,     \* fictionpress: the values of the story page's chapter select
    tqueue,       \* scrape runner: the tasks still to dispatch
    handled,      \* history: the tasks dispatched, each with its handler response
    lastOp        \* history: the store call that returned last, and its result

txVars == <<pc, txNow, txLimit, snap, visited, ids, ss>>
schedVars == <<spc, requests, sr, pending>>
tableVars == <<sessions, folders, feeds, feedFolders, scrapes>>
writeVars == <<posts, wpc, wargs>>
apiVars == <<apc, areq, blacklist, aplugin, attempts>>
authVars == <<loginTokens, activated>>
readVars == <<readStatuses>>
runVars == <<reported, chapters, tqueue, handled>>
restVars == <<readVars, runVars>>
vars == <<now, sessions, folders, feeds, feedFolders, scrapes,
          pc, txNow, txLimit, snap, visited, ids, ss, claims,
          spc, requests, sr, pending, posts, wpc, wargs,
          apc, areq, blacklist, aplugin, attempts, loginTokens, activated,
          readStatuses, reported, chapters, tqueue, handled, lastOp>>

(***************************************************************************)
(* lastOp is the store call that returned in the step just taken, with its *)
(* id argument and its result (for Write also the fact written and the     *)
(* path the call took); NoOp when the step was not such a return.          *)
(***************************************************************************)
OpF(op, id, res, fact, via) ==
    [op |-> op, id |-> id, res |-> res, fact |-> fact, via |-> via]

Op(op, id, res) == OpF(op, id, res, NoFact, "")

NoOp == Op("", NoID, "")

ScrapeIDs == 1..Len(scrapes)
FeedIDs == 1..Len(feeds)
FolderIDs == 1..Len(folders)

UserOf(key) == sessions[key].user_id

(***************************************************************************)
(* A row of table scrapes as an INSERT that names feed_id, plugin, config  *)
(* and scheduled_start_at creates it; the other columns take their         *)
(* defaults.                                                               *)
(***************************************************************************)
NewScrape(feedID, plugin, config, scheduledStartAt) ==
    [feed_id |-> feedID, plugin |-> plugin, config |-> config,
     scheduled_start_at |-> scheduledStartAt,
     started_at |-> NULL, ended_at |-> NULL,
     state |-> DefaultScrapeState, errors |-> <<>>,
     total_datums |-> 0, total_retries |-> 0, total_tasks |-> 0]

(***************************************************************************)
(* The unique constraint scrapes_plugin_scheduled_start_at_config_key.     *)
(***************************************************************************)
ScheduleConflict_Waiting(plugin, scheduledStartAt, config) ==
    \E i \in ScrapeIDs :
        /\ scrapes[i].plugin = plugin
        /\ scrapes[i].scheduled_start_at = scheduledStartAt
        /\ scrapes[i].config = config
        /\ scrapes[i].state = "WAITING"

ScheduleConflict(plugin, scheduledStartAt, config) ==
    \E i \in ScrapeIDs :
        /\ scrapes[i].plugin = plugin
        /\ scrapes[i].scheduled_start_at = scheduledStartAt
        /\ scrapes[i].config = config

(***************************************************************************)
(* A row is locked while a StartScrapes transaction that selected it FOR   *)
(* UPDATE is open.                                                         *)
(***************************************************************************)
NotLocked(id) == FALSE

Locked(id) == \E w \in Workers : pc[w] # "idle" /\ id \in ids[w]

InitRest ==
    /\ readStatuses = {}
    /\ reported = {}
    /\ chapters = <<>>
    /\ tqueue = <<>>
    /\ handled = <<>>

Init ==
    /\ now = 0
    /\ sessions = [k \in Keys |-> [user_id |-> IF k = "k1" THEN "a" ELSE "b",
                                   active |-> TRUE]]
    /\ folders = <<>>
    /\ feeds = <<>>
    /\ feedFolders = {}
    /\ scrapes = <<>>
    /\ pc = [w \in Workers |-> "idle"]
    /\ txNow = [w \in Workers |-> 0]
    /\ txLimit = [w \in Workers |-> 0]
    /\ snap = [w \in Workers |-> 0]
    /\ visited = [w \in Workers |-> {}]
    /\ ids = [w \in Workers |-> {}]
    /\ ss = [w \in Workers |-> {}]
    /\ claims = <<>>
    /\ spc = [s \in Schedulers |-> "idle"]
    /\ requests = [s \in Schedulers |-> {}]
    /\ sr = [s \in Schedulers |-> [FeedID |-> NoID, Plugin |-> ""]]
    /\ pending = [s \in Schedulers |-> <<>>]
    /\ posts = <<>>
    /\ wpc = [x \in Writers |-> "idle"]
    /\ wargs = [x \in Writers |-> NoArgs]
    /\ apc = [a \in Callers |-> "idle"]
    /\ areq = [a \in Callers |-> NoRequest]
    /\ blacklist = [a \in Callers |-> <<>>]
    /\ aplugin = [a \in Callers |-> ""]
    /\ attempts = [a \in Callers |-> <<>>]
    /\ loginTokens = <<>>
    /\ activated = <<>>
    /\ InitRest
    /\ lastOp = NoOp

(***************************************************************************)
(* The clock advances.                                                     *)
(***************************************************************************)
Tick ==
    /\ now + 1 \in Times
    /\ now' = now + 1
    /\ lastOp' = NoOp
    /\ UNCHANGED <<tableVars, txVars, claims, schedVars, writeVars,
               apiVars, authVars, restVars>>

(***************************************************************************)
(* getDefaultFolderID: the id of the user's folder named 'default', and    *)
(* the folders table after the call, which creates the folder when the     *)
(* user has none.                                                          *)
(***************************************************************************)
DefaultFoldersOf(user) ==
    {f \in FolderIDs : folders[f].name = DefaultFolderName /\ folders[f].user_id = user}

getDefaultFolderID(key) ==
    IF DefaultFoldersOf(UserOf(key)) # {}
    THEN [fid |-> CHOOSE f \in DefaultFoldersOf(UserOf(key)) :
                      \A g \in DefaultFoldersOf(UserOf(key)) : f <= g,
          folders |-> folders]
    ELSE [fid |-> Len(folders) + 1,
          folders |-> Append(folders, [user_id |-> UserOf(key),
                                       name |-> DefaultFolderName])]

(***************************************************************************)
(* DB.AddFeed: resolve the folder, then in one transaction insert the      *)
(* feed, its feed_folders membership and its first scrape, and commit.     *)
(* Any of the steps can fail (the scrape insert does on the unique         *)
(* constraint): the transaction is then rolled back, or was not begun or   *)
(* not committed, and AddFeed returns the error; a folder created by       *)
(* getDefaultFolderID stays.                                               *)
(***************************************************************************)
AddFeed_NoRollback(key, folderID, title, plugin, feedURL, initialConfig) ==
    LET df == IF folderID = NoID THEN getDefaultFolderID(key)
              ELSE [fid |-> folderID, folders |-> folders]
        feedID == Len(feeds) + 1
    IN  /\ Len(feeds) < MaxFeeds
        /\ Len(scrapes) < MaxScrapes
        /\ \/ /\ folders' = df.folders
              /\ feeds' = Append(feeds, [title |-> title, plugin |-> plugin,
                                          url |-> feedURL])
              /\ UNCHANGED <<feedFolders, scrapes, claims>>
              /\ lastOp' = Op("AddFeed", NoID, "err")
           \/ /\ ~ScheduleConflict(plugin, now, initialConfig)
              /\ folders' = df.folders
              /\ feeds' = Append(feeds, [title |-> title, plugin |-> plugin,
                                          url |-> feedURL])
              /\ feedFolders' = feedFolders \cup {<<UserOf(key), df.fid, feedID>>}
              /\ scrapes' = Append(scrapes,
                                   NewScrape(feedID, plugin, initialConfig, now))
              /\ claims' = Append(claims, <<>>)
              /\ lastOp' = Op("AddFeed", feedID, "nil")
        /\ UNCHANGED <<now, sessions, txVars, schedVars, writeVars, authVars, restVars>>

AddFeed(key, folderID, title, plugin, feedURL, initialConfig) ==
    LET df == IF folderID = NoID THEN getDefaultFolderID(key)
              ELSE [fid |-> folderID, folders |-> folders]
        feedID == Len(feeds) + 1
    IN  /\ Len(feeds) < MaxFeeds
        /\ Len(scrapes) < MaxScrapes
        /\ \/ /\ folders' \in {folders, df.folders}
              /\ UNCHANGED <<feeds, feedFolders, scrapes, claims>>
              /\ lastOp' = Op("AddFeed", NoID, "err")
           \/ /\ ~ScheduleConflict(plugin, now, initialConfig)
              /\ folders' = df.folders
              /\ feeds' = Append(feeds, [title |-> title, plugin |-> plugin,
                                          url |-> feedURL])
              /\ feedFolders' = feedFolders \cup {<<UserOf(key), df.fid, feedID>>}
              /\ scrapes' = Append(scrapes,
                                   NewScrape(feedID, plugin, initialConfig, now))
              /\ claims' = Append(claims, <<>>)
              /\ lastOp' = Op("AddFeed", feedID, "nil")
        /\ UNCHANGED <<now, sessions, txVars, schedVars, writeVars, authVars, restVars>>

(***************************************************************************)
(* The WHERE clause of the SELECT of StartScrapes, with now() the start    *)
(* time of the transaction.                                                *)
(***************************************************************************)
ShouldRun_AnyState(row, t) ==
    /\ row.scheduled_start_at <= t
    /\ Len(row.errors) < MaxErrors

ShouldRun(row, t) ==
    /\ row.scheduled_start_at <= t
    /\ row.state = "WAITING"
    /\ Len(row.errors) < MaxErrors

(***************************************************************************)
(* StartScrapes: BeginTx fixes the transaction's now(); the SELECT, sent   *)
(* later, takes its snapshot of the rows committed so far.                 *)
(***************************************************************************)
StartScrapes_Begin(w, limit) ==
    /\ pc[w] = "idle"
    /\ pc' = [pc EXCEPT ![w] = "begun"]
    /\ txNow' = [txNow EXCEPT ![w] = now]
    /\ txLimit' = [txLimit EXCEPT ![w] = limit]
    /\ lastOp' = NoOp
    /\ UNCHANGED <<now, tableVars, snap, visited, ids, ss, claims, schedVars, writeVars,
               apiVars, authVars, restVars>>

StartScrapes_Query(w) ==
    /\ pc[w] = "begun"
    /\ pc' = [pc EXCEPT ![w] = "select"]
    /\ snap' = [snap EXCEPT ![w] = Len(scrapes)]
    /\ lastOp' = NoOp
    /\ UNCHANGED <<now, tableVars, txNow, txLimit, visited, ids, ss, claims,
                   schedVars, writeVars, apiVars, authVars, restVars>>

(***************************************************************************)
(* The SELECT ... FOR UPDATE SKIP LOCKED examines one more row of its      *)
(* snapshot, in no particular order (there is no ORDER BY): a row that     *)
(* another transaction holds locked is skipped, a row whose latest         *)
(* committed version satisfies the WHERE clause is locked and selected.    *)
(* Rows only ever leave WAITING and their other tested columns never       *)
(* change, so the latest version satisfies the clause only if the          *)
(* snapshot's version does.                                                *)
(***************************************************************************)
StartScrapes_Select(w, id) ==
    /\ pc[w] = "select"
    /\ id \in (1..snap[w]) \ visited[w]
    /\ Cardinality(ids[w]) < txLimit[w]
    /\ visited' = [visited EXCEPT ![w] = @ \cup {id}]
    /\ ids' = [ids EXCEPT ![w] =
                 IF ShouldRun(scrapes[id], txNow[w]) /\ ~Locked(id)
                 THEN @ \cup {id} ELSE @]
    /\ lastOp' = NoOp
    /\ UNCHANGED <<now, tableVars, pc, txNow, txLimit, snap, ss, claims,
                   schedVars, writeVars, apiVars, authVars, restVars>>

(***************************************************************************)
(* StartScrapes returns: the call's frame and its transaction are gone.    *)
(***************************************************************************)
Return(w) ==
    /\ pc' = [pc EXCEPT ![w] = "idle"]
    /\ txNow' = [txNow EXCEPT ![w] = 0]
    /\ txLimit' = [txLimit EXCEPT ![w] = 0]
    /\ snap' = [snap EXCEPT ![w] = 0]
    /\ visited' = [visited EXCEPT ![w] = {}]
    /\ ids' = [ids EXCEPT ![w] = {}]
    /\ ss' = [ss EXCEPT ![w] = {}]

SelectDone(w) ==
    \/ Cardinality(ids[w]) = txLimit[w]
    \/ visited[w] = 1..snap[w]

(***************************************************************************)
(* len(ids) == 0: StartScrapes returns an empty result; the deferred       *)
(* rollback ends the transaction.                                          *)
(***************************************************************************)
StartScrapes_Empty(w) ==
    /\ pc[w] = "select"
    /\ SelectDone(w)
    /\ ids[w] = {}
    /\ Return(w)
    /\ lastOp' = Op("StartScrapes", NoID, "nil")
    /\ UNCHANGED <<now, tableVars, claims, schedVars, writeVars, apiVars, authVars, restVars>>

(***************************************************************************)
(* UPDATE scrapes SET state = 'RUNNING', started_at = now() WHERE          *)
(* id = ANY(ids) RETURNING ...: the new row versions stay private to the   *)
(* transaction until it commits.                                           *)
(***************************************************************************)
StartScrapes_Update(w) ==
    /\ pc[w] = "select"
    /\ SelectDone(w)
    /\ ids[w] # {}
    /\ pc' = [pc EXCEPT ![w] = "commit"]
    /\ ss' = [ss EXCEPT ![w] = {id \in ScrapeIDs : id \in ids[w]}]
    /\ lastOp' = NoOp
    /\ UNCHANGED <<now, tableVars, txNow, txLimit, snap, visited, ids,
                   claims, schedVars, writeVars, apiVars, authVars, restVars>>

Started(row, t) == [row EXCEPT !.state = "RUNNING", !.started_at = <<t>>]

(***************************************************************************)
(* tx.Commit succeeds: the updated rows become visible, the locks are      *)
(* released and StartScrapes returns ss.                                   *)
(***************************************************************************)
StartScrapes_Commit(w) ==
    /\ pc[w] = "commit"
    /\ scrapes' = [i \in ScrapeIDs |->
                     IF i \in ss[w] THEN Started(scrapes[i], txNow[w])
                     ELSE scrapes[i]]
    /\ claims' = [i \in ScrapeIDs |->
                    IF i \in ss[w] THEN Append(claims[i], w) ELSE claims[i]]
    /\ Return(w)
    /\ lastOp' = Op("StartScrapes", NoID, "nil")
    /\ UNCHANGED <<now, sessions, folders, feeds, feedFolders, schedVars, writeVars,
               apiVars, authVars, restVars>>

(***************************************************************************)
(* A statement of the transaction or its commit fails: StartScrapes        *)
(* returns (nil, err), the transaction is rolled back and leaves no trace. *)
(***************************************************************************)
StartScrapes_Fail(w) ==
    /\ pc[w] # "idle"
    /\ Return(w)
    /\ lastOp' = Op("StartScrapes", NoID, "err")
    /\ UNCHANGED <<now, tableVars, claims, schedVars, writeVars, apiVars, authVars, restVars>>

(***************************************************************************)
(* DB.EndScrape: one UPDATE ... WHERE id = $4 RETURNING state.  The        *)
(* UPDATE waits for a row lock held by an open transaction.  No row with   *)
(* that id: Scan fails with sql.ErrNoRows.                                 *)
(***************************************************************************)
Ended(row, t, datums, retries, tasks) ==
    [row EXCEPT !.state = "SUCCESS", !.ended_at = <<t>>,
                !.total_datums = datums, !.total_retries = retries,
                !.total_tasks = tasks]

EndScrape_NoWhere(id, datums, retries, tasks) ==
    /\ IF id \in ScrapeIDs
       THEN /\ \A i \in ScrapeIDs : ~Locked(i)
            /\ scrapes' = [i \in ScrapeIDs |->
                              Ended(scrapes[i], now, datums, retries, tasks)]
            /\ lastOp' = Op("EndScrape", id, "nil")
       ELSE /\ UNCHANGED scrapes
            /\ lastOp' = Op("EndScrape", id, "err")
    /\ UNCHANGED <<now, sessions, folders, feeds, feedFolders, txVars, claims,
                   schedVars, writeVars, apiVars, authVars, readVars>>

EndScrape(id, datums, retries, tasks) ==
    /\ IF id \in ScrapeIDs
       THEN /\ ~Locked(id)
            /\ scrapes' = [scrapes EXCEPT
                             ![id] = Ended(@, now, datums, retries, tasks)]
            /\ lastOp' = Op("EndScrape", id, "nil")
       ELSE /\ UNCHANGED scrapes
            /\ lastOp' = Op("EndScrape", id, "err")
    /\ UNCHANGED <<now, sessions, folders, feeds, feedFolders, txVars, claims,
                   schedVars, writeVars, apiVars, authVars, readVars>>

(***************************************************************************)
(* DB.ErrorScrape: the body is "return nil".                               *)
(***************************************************************************)
ErrorScrape(id, err) ==
    /\ lastOp' = Op("ErrorScrape", id, "nil")
    /\ UNCHANGED <<now, tableVars, txVars, claims, schedVars, writeVars,
               apiVars, authVars, readVars>>

(***************************************************************************)
(* DB.FindMissingSchedules: the feeds that have a scrape (JOIN LATERAL)    *)
(* and no scrape in state WAITING, at most limit of them.                  *)
(***************************************************************************)
MissingSchedules ==
    {f \in FeedIDs :
        /\ \E i \in ScrapeIDs : scrapes[i].feed_id = f
        /\ ~ \E i \in ScrapeIDs : scrapes[i].feed_id = f /\ scrapes[i].state = "WAITING"}

Min(a, b) == IF a < b THEN a ELSE b

FindMissingSchedules(s, limit) ==
    /\ spc[s] = "idle"
    /\ \E fs \in SUBSET MissingSchedules :
          /\ Cardinality(fs) = Min(limit, Cardinality(MissingSchedules))
          /\ requests' = [requests EXCEPT ![s] = fs]
          /\ lastOp' = Op("FindMissingSchedules", NoID, "nil")
    /\ UNCHANGED <<now, tableVars, txVars, claims, spc, sr, pending, writeVars,
               apiVars, authVars, restVars>>

(***************************************************************************)
(* The scheduler loop hands one of the requests to the plugin's schedule   *)
(* proposer, which answers with any list of schedules, and calls           *)
(* InsertSchedule with it.                                                 *)
(***************************************************************************)
ScrapeSchedules ==
    UNION {[1..n -> [ScheduledStartAt : Times, Config : Configs]] : n \in ScheduleLens}

InsertSchedule_Call(s, f, schedules) ==
    /\ spc[s] = "idle"
    /\ f \in requests[s]
    /\ requests' = [requests EXCEPT ![s] = @ \ {f}]
    /\ sr' = [sr EXCEPT ![s] = [FeedID |-> f, Plugin |-> feeds[f].plugin]]
    /\ pending' = [pending EXCEPT ![s] = schedules]
    /\ spc' = [spc EXCEPT ![s] = "insert"]
    /\ lastOp' = NoOp
    /\ UNCHANGED <<now, tableVars, txVars, claims, writeVars, apiVars, authVars, restVars>>

(***************************************************************************)
(* The rows of scrapes with the given plugin, scheduled_start_at and       *)
(* config, and the one the unique constraint lets exist.                   *)
(***************************************************************************)
ScheduleRows(S, plugin, scheduledStartAt, config) ==
    {i \in 1..Len(S) : /\ S[i].plugin = plugin
                       /\ S[i].scheduled_start_at = scheduledStartAt
                       /\ S[i].config = config}

ScheduleRow(plugin, scheduledStartAt, config) ==
    CHOOSE i \in ScheduleRows(scrapes, plugin, scheduledStartAt, config) : TRUE

(***************************************************************************)
(* One turn of the loop of InsertSchedule: INSERT INTO scrapes ... ON      *)
(* CONFLICT ON CONSTRAINT scrapes_plugin_scheduled_start_at_config_key DO  *)
(* NOTHING.                                                                *)
(***************************************************************************)
InsertSchedule_Insert(s) ==
    /\ spc[s] = "insert"
    /\ pending[s] # <<>>
    /\ LET sch == Head(pending[s])
       IN  IF ScheduleConflict(sr[s].Plugin, sch.ScheduledStartAt, sch.Config)
           THEN /\ UNCHANGED <<scrapes, claims>>
                /\ lastOp' = OpF("InsertSchedule.Exec",
                                 ScheduleRow(sr[s].Plugin, sch.ScheduledStartAt,
                                             sch.Config),
                                 "nil", NoFact, "conflict")
           ELSE /\ Len(scrapes) < MaxScrapes
                /\ scrapes' = Append(scrapes,
                                     NewScrape(sr[s].FeedID, sr[s].Plugin,
                                               sch.Config, sch.ScheduledStartAt))
                /\ claims' = Append(claims, <<>>)
                /\ lastOp' = OpF("InsertSchedule.Exec", Len(scrapes) + 1,
                                 "nil", NoFact, "inserted")
    /\ pending' = [pending EXCEPT ![s] = Tail(@)]
    /\ UNCHANGED <<now, sessions, folders, feeds, feedFolders, txVars,
                   spc, requests, sr, writeVars, apiVars, authVars, restVars>>

(***************************************************************************)
(* The loop of InsertSchedule is over: return nil.                         *)
(***************************************************************************)
InsertSchedule_Return(s) ==
    /\ spc[s] = "insert"
    /\ pending[s] = <<>>
    /\ spc' = [spc EXCEPT ![s] = "idle"]
    /\ sr' = [sr EXCEPT ![s] = [FeedID |-> NoID, Plugin |-> ""]]
    /\ lastOp' = Op("InsertSchedule", sr[s].FeedID, "nil")
    /\ UNCHANGED <<now, tableVars, txVars, claims, requests, pending, writeVars,
               apiVars, authVars, restVars>>

AddFeedStep ==
    \E key \in Keys, folderID \in {NoID} \cup FolderIDs, title \in Titles,
       plugin \in Plugins, feedURL \in URLs, initialConfig \in Configs :
       /\ AddFeed(key, folderID, title, plugin, feedURL, initialConfig)
       /\ UNCHANGED apiVars

EndScrapeStep ==
    \E id \in 1..(Len(scrapes) + 1), c \in Counters :
       /\ EndScrape(id, c[1], c[2], c[3])
       /\ UNCHANGED runVars

ErrorScrapeStep ==
    \E id \in ScrapeIDs, err \in Errs :
       /\ ErrorScrape(id, err)
       /\ UNCHANGED runVars

(***************************************************************************)
(* The scrape lifecycle: feeds are added, a worker claims scrapes and      *)
(* reports their outcome.                                                  *)
(***************************************************************************)
Next ==
    \/ Tick
    \/ AddFeedStep
    \/ \E limit \in Limits : StartScrapes_Begin("w1", limit)
    \/ StartScrapes_Query("w1")
    \/ \E id \in ScrapeIDs : StartScrapes_Select("w1", id)
    \/ StartScrapes_Empty("w1")
    \/ StartScrapes_Update("w1")
    \/ StartScrapes_Commit("w1")
    \/ StartScrapes_Fail("w1")
    \/ EndScrapeStep
    \/ ErrorScrapeStep

Spec == Init /\ [][Next]_vars

(***************************************************************************)
(* Claiming: feeds are added while the workers of the pool claim scrapes.  *)
(***************************************************************************)
NextClaim ==
    \/ Tick
    \/ AddFeedStep
    \/ \E w \in Workers, limit \in Limits : StartScrapes_Begin(w, limit)
    \/ \E w \in Workers : StartScrapes_Query(w)
    \/ \E w \in Workers, id \in ScrapeIDs : StartScrapes_Select(w, id)
    \/ \E w \in Workers : StartScrapes_Empty(w)
    \/ \E w \in Workers : StartScrapes_Update(w)
    \/ \E w \in Workers : StartScrapes_Commit(w)
    \/ \E w \in Workers : StartScrapes_Fail(w)

SpecClaim == Init /\ [][NextClaim]_vars

(***************************************************************************)
(* The scheduler: two scheduler loops beside one worker.                   *)
(***************************************************************************)
NextSchedule ==
    \/ AddFeedStep
    \/ \E limit \in Limits : StartScrapes_Begin("w1", limit)
    \/ StartScrapes_Query("w1")
    \/ \E id \in ScrapeIDs : StartScrapes_Select("w1", id)
    \/ StartScrapes_Empty("w1")
    \/ StartScrapes_Update("w1")
    \/ StartScrapes_Commit("w1")
    \/ \E s \in Schedulers, limit \in Limits : FindMissingSchedules(s, limit)
    \/ \E s \in Schedulers, f \in FeedIDs, schedules \in ScrapeSchedules :
          InsertSchedule_Call(s, f, schedules)
    \/ \E s \in Schedulers : InsertSchedule_Insert(s)
    \/ \E s \in Schedulers : InsertSchedule_Return(s)

SpecSchedule == Init /\ [][NextSchedule]_vars

(***************************************************************************)
(* Concurrent claim: the store holds one feed whose first scrape has ended *)
(* and for which C4Scrapes schedules, all due, were inserted; two workers  *)
(* have each called StartScrapes(C4Limit) and their transactions are open. *)
(***************************************************************************)
InitClaim5 ==
    /\ now = 0
    /\ sessions = [k \in Keys |-> [user_id |-> "a", active |-> TRUE]]
    /\ folders = <<[user_id |-> "a", name |-> DefaultFolderName]>>
    /\ feeds = <<[title |-> "t1", plugin |-> "p1", url |-> "u1"]>>
    /\ feedFolders = {<<"a", 1, 1>>}
    /\ scrapes = [i \in 1..(C4Scrapes + 1) |->
                    IF i = 1
                    THEN Ended(Started(NewScrape(1, "p1", "c1", 0 - C4Scrapes),
                                       0 - C4Scrapes), 0 - C4Scrapes, 2, 1, 3)
                    ELSE NewScrape(1, "p1", "c1", i - 1 - C4Scrapes)]
    /\ pc = [w \in Workers |-> "begun"]
    /\ txNow = [w \in Workers |-> 0]
    /\ txLimit = [w \in Workers |-> C4Limit]
    /\ snap = [w \in Workers |-> 0]
    /\ visited = [w \in Workers |-> {}]
    /\ ids = [w \in Workers |-> {}]
    /\ ss = [w \in Workers |-> {}]
    /\ claims = [i \in 1..(C4Scrapes + 1) |-> IF i = 1 THEN <<"w1">> ELSE <<>>]
    /\ spc = [s \in Schedulers |-> "idle"]
    /\ requests = [s \in Schedulers |-> {}]
    /\ sr = [s \in Schedulers |-> [FeedID |-> NoID, Plugin |-> ""]]
    /\ pending = [s \in Schedulers |-> <<>>]
    /\ posts = <<>>
    /\ wpc = [x \in Writers |-> "idle"]
    /\ wargs = [x \in Writers |-> NoArgs]
    /\ apc = [a \in Callers |-> "idle"]
    /\ areq = [a \in Callers |-> NoRequest]
    /\ blacklist = [a \in Callers |-> <<>>]
    /\ aplugin = [a \in Callers |-> ""]
    /\ attempts = [a \in Callers |-> <<>>]
    /\ loginTokens = <<>>
    /\ activated = <<>>
    /\ InitRest
    /\ lastOp = NoOp

NextClaim5 ==
    \/ \E w \in Workers : StartScrapes_Query(w)
    \/ \E w \in Workers, id \in ScrapeIDs : StartScrapes_Select(w, id)
    \/ \E w \in Workers : StartScrapes_Empty(w)
    \/ \E w \in Workers : StartScrapes_Update(w)
    \/ \E w \in Workers : StartScrapes_Commit(w)

SpecClaim5 == InitClaim5 /\ [][NextClaim5]_vars

(***************************************************************************)
(* Post.ContentHash: a digest of title, author, body and url; distinct     *)
(* contents have distinct digests.                                         *)
(***************************************************************************)
ContentHash(f) == <<"h", f.Title, f.Author, f.Body, f.OriginalURL>>

(***************************************************************************)
(* compressText and decompressText: the stored body is not the text, and   *)
(* decompressText undoes compressText.                                     *)
(***************************************************************************)
compressText(body) == <<"z", body>>

decompressText(compressed) == compressed[2]

PostIDs == 1..Len(posts)

(***************************************************************************)
(* SELECT content_hash FROM posts WHERE content_hash = $1 finds a row:     *)
(* validHash != "".                                                        *)
(***************************************************************************)
HashExists(P, contentHash) ==
    \E i \in 1..Len(P) : P[i].content_hash = contentHash

NewPost(feedID, f) ==
    [feed_id |-> feedID, content_hash |-> ContentHash(f), title |-> f.Title,
     author |-> f.Author, body |-> compressText(f.Body), url |-> f.OriginalURL,
     posted_at |-> f.PostedAt]

Refreshed_PostedAt(row, f) ==
    [row EXCEPT !.title = f.Title, !.author = f.Author,
                !.body = compressText(f.Body), !.content_hash = ContentHash(f),
                !.posted_at = f.PostedAt]

Refreshed(row, f) ==
    [row EXCEPT !.title = f.Title, !.author = f.Author,
                !.body = compressText(f.Body), !.content_hash = ContentHash(f)]

(***************************************************************************)
(* INSERT INTO posts ... ON CONFLICT (url) DO UPDATE SET title, author,    *)
(* body, content_hash: the posts table after the statement.                *)
(***************************************************************************)
Upsert_PlainInsert(P, feedID, f) == Append(P, NewPost(feedID, f))

Upsert_StaleHash(P, feedID, f) ==
    IF \E i \in 1..Len(P) : P[i].url = f.OriginalURL
    THEN [i \in 1..Len(P) |->
            IF P[i].url = f.OriginalURL
            THEN [P[i] EXCEPT !.title = f.Title, !.author = f.Author,
                              !.body = compressText(f.Body)]
            ELSE P[i]]
    ELSE Append(P, NewPost(feedID, f))

Upsert(P, feedID, f) ==
    IF \E i \in 1..Len(P) : P[i].url = f.OriginalURL
    THEN [i \in 1..Len(P) |->
            IF P[i].url = f.OriginalURL THEN Refreshed(P[i], f) ELSE P[i]]
    ELSE Append(P, NewPost(feedID, f))

(***************************************************************************)
(* DB.Write run from BeginTx to Commit with no other call in between and   *)
(* no failing statement: the posts table it leaves.                        *)
(***************************************************************************)
WriteTx_NoHashCheck(P, scrapeID, f) ==
    Append(P, NewPost(scrapes[scrapeID].feed_id, f))

WriteTx(P, scrapeID, f) ==
    IF HashExists(P, ContentHash(f))
    THEN P
    ELSE Upsert(P, scrapes[scrapeID].feed_id, f)

Write_Begin_AnyFact(x, scrapeID, f) ==
    /\ wpc[x] = "idle"
    /\ wpc' = [wpc EXCEPT ![x] = "query"]
    /\ wargs' = [wargs EXCEPT ![x] = [scrapeID |-> scrapeID, f |-> f]]
    /\ lastOp' = NoOp
    /\ UNCHANGED <<now, tableVars, txVars, claims, schedVars, posts,
               apiVars, authVars, restVars>>

(***************************************************************************)
(* Write, up to BeginTx.  A fact that is no *hydrocarbon.Post: an error.   *)
(* BeginTx fails: Write returns nil.  Else the transaction is open.        *)
(***************************************************************************)
Write_Begin(x, scrapeID, f) ==
    /\ wpc[x] = "idle"
    /\ \/ /\ f.Kind # "Post"
          /\ lastOp' = OpF("Write", scrapeID, "err", f, "not a post")
          /\ UNCHANGED <<wpc, wargs>>
       \/ /\ f.Kind = "Post"
          /\ lastOp' = OpF("Write", scrapeID, "nil", f, "begin failed")
          /\ UNCHANGED <<wpc, wargs>>
       \/ /\ f.Kind = "Post"
          /\ wpc' = [wpc EXCEPT ![x] = "query"]
          /\ wargs' = [wargs EXCEPT ![x] = [scrapeID |-> scrapeID, f |-> f]]
          /\ lastOp' = NoOp
    /\ UNCHANGED <<now, tableVars, txVars, claims, schedVars, posts,
               apiVars, authVars, restVars>>

WriteReturn(x) ==
    /\ wpc' = [wpc EXCEPT ![x] = "idle"]
    /\ wargs' = [wargs EXCEPT ![x] = NoArgs]

(***************************************************************************)
(* The SELECT of the content hash, which sees the committed rows.  The     *)
(* hash is there: "do no work", return nil (the deferred rollback ends the *)
(* transaction).                                                           *)
(***************************************************************************)
Write_Query(x) ==
    /\ wpc[x] = "query"
    /\ IF HashExists(posts, ContentHash(wargs[x].f))
       THEN /\ WriteReturn(x)
            /\ lastOp' = OpF("Write", wargs[x].scrapeID, "nil", wargs[x].f,
                             "hash exists")
       ELSE /\ wpc' = [wpc EXCEPT ![x] = "insert"]
            /\ lastOp' = NoOp
            /\ UNCHANGED wargs
    /\ UNCHANGED <<now, tableVars, txVars, claims, schedVars, posts,
               apiVars, authVars, restVars>>

(***************************************************************************)
(* The INSERT ... ON CONFLICT (url).  It waits while another open          *)
(* transaction has inserted or updated the row of that url; its own row    *)
(* version stays private until commit.                                     *)
(***************************************************************************)
URLLocked(x, url) ==
    \E y \in Writers : y # x /\ wpc[y] = "commit" /\ wargs[y].f.OriginalURL = url

Write_Insert(x) ==
    /\ wpc[x] = "insert"
    /\ ~URLLocked(x, wargs[x].f.OriginalURL)
    /\ wpc' = [wpc EXCEPT ![x] = "commit"]
    /\ lastOp' = NoOp
    /\ UNCHANGED <<now, tableVars, txVars, claims, schedVars, posts, wargs,
               apiVars, authVars, restVars>>

(***************************************************************************)
(* tx.Commit succeeds: the inserted or refreshed row becomes visible and   *)
(* Write returns nil.                                                      *)
(***************************************************************************)
Write_Commit(x) ==
    /\ wpc[x] = "commit"
    /\ posts' = Upsert(posts, scrapes[wargs[x].scrapeID].feed_id, wargs[x].f)
    /\ WriteReturn(x)
    /\ lastOp' = OpF("Write", wargs[x].scrapeID, "nil", wargs[x].f,
                     IF \E i \in PostIDs : posts[i].url = wargs[x].f.OriginalURL
                     THEN "refreshed" ELSE "inserted")
    /\ UNCHANGED <<now, tableVars, txVars, claims, schedVars, apiVars, authVars, restVars>>

(***************************************************************************)
(* A statement of the transaction, compressText or the commit fails:       *)
(* Write returns the error and the transaction is rolled back.             *)
(***************************************************************************)
Write_Fail(x) ==
    /\ wpc[x] # "idle"
    /\ WriteReturn(x)
    /\ lastOp' = OpF("Write", wargs[x].scrapeID, "err", wargs[x].f, "failed")
    /\ UNCHANGED <<now, tableVars, txVars, claims, schedVars, posts,
               apiVars, authVars, restVars>>

(***************************************************************************)
(* DB.GetFeedPosts: the posts of the feed, latest first (and in the order  *)
(* of insertion among posts of one time), cut by LIMIT and OFFSET; none    *)
(* when no session has the key.                                            *)
(***************************************************************************)
Latest(S) ==
    CHOOSE i \in S : \A j \in S :
        \/ posts[i].posted_at > posts[j].posted_at
        \/ posts[i].posted_at = posts[j].posted_at /\ i <= j

RECURSIVE LatestFirst(_)
LatestFirst(S) ==
    IF S = {} THEN <<>> ELSE <<Latest(S)>> \o LatestFirst(S \ {Latest(S)})

(***************************************************************************)
(* EXISTS(SELECT 1 FROM read_statuses WHERE post_id = po.id AND user_id =  *)
(* (SELECT user_id FROM sessions WHERE key = $1)): a key with no session   *)
(* makes the subquery NULL, and no row has user_id = NULL.                 *)
(***************************************************************************)
Read(sessionKey, i) ==
    /\ sessionKey \in DOMAIN sessions
    /\ <<UserOf(sessionKey), i>> \in readStatuses

PostView(sessionKey, i) ==
    [ID |-> i, Title |-> posts[i].title, Author |-> posts[i].author,
     OriginalURL |-> posts[i].url, PostedAt |-> posts[i].posted_at,
     Read |-> Read(sessionKey, i)]

GetFeedPosts(sessionKey, feedID, limit, offset) ==
    LET rows == LatestFirst({i \in PostIDs :
                    posts[i].feed_id = feedID /\ sessionKey \in DOMAIN sessions})
        page == SubSeq(rows, offset + 1, Min(offset + limit, Len(rows)))
    IN  [n \in 1..Len(page) |-> PostView(sessionKey, page[n])]

(***************************************************************************)
(* DB.GetPost: SELECT ... FROM posts po WHERE id = $2 AND EXISTS (SELECT   *)
(* id FROM sessions WHERE key = $1); the body is decompressed.  No row:    *)
(* the Scan fails with sql.ErrNoRows and no post is returned.              *)
(***************************************************************************)
GetPost(sessionKey, postID) ==
    IF postID \in PostIDs /\ sessionKey \in DOMAIN sessions
    THEN <<PostView(sessionKey, postID) @@
           [Body |-> decompressText(posts[postID].body)]>>
    ELSE <<>>

(***************************************************************************)
(* Writing: the store holds two feeds, the first with two scrapes; two     *)
(* scrape runners write the facts their handlers emit.                     *)
(***************************************************************************)
InitWrite ==
    /\ now = 0
    /\ sessions = [k \in Keys |-> [user_id |-> "a", active |-> TRUE]]
    /\ folders = <<[user_id |-> "a", name |-> DefaultFolderName]>>
    /\ feeds = <<[title |-> "t1", plugin |-> "p1", url |-> "u1"],
                 [title |-> "t1", plugin |-> "p1", url |-> "u2"]>>
    /\ feedFolders = {<<"a", 1, 1>>, <<"a", 1, 2>>}
    /\ scrapes = <<Started(NewScrape(1, "p1", "c1", 0), 0),
                   Started(NewScrape(1, "p1", "c1", 1), 0),
                   Started(NewScrape(2, "p1", "c1", 2), 0)>>
    /\ pc = [w \in Workers |-> "idle"]
    /\ txNow = [w \in Workers |-> 0]
    /\ txLimit = [w \in Workers |-> 0]
    /\ snap = [w \in Workers |-> 0]
    /\ visited = [w \in Workers |-> {}]
    /\ ids = [w \in Workers |-> {}]
    /\ ss = [w \in Workers |-> {}]
    /\ claims = <<<<"w1">>, <<"w1">>, <<"w2">>>>
    /\ spc = [s \in Schedulers |-> "idle"]
    /\ requests = [s \in Schedulers |-> {}]
    /\ sr = [s \in Schedulers |-> [FeedID |-> NoID, Plugin |-> ""]]
    /\ pending = [s \in Schedulers |-> <<>>]
    /\ posts = <<>>
    /\ wpc = [x \in Writers |-> "idle"]
    /\ wargs = [x \in Writers |-> NoArgs]
    /\ apc = [a \in Callers |-> "idle"]
    /\ areq = [a \in Callers |-> NoRequest]
    /\ blacklist = [a \in Callers |-> <<>>]
    /\ aplugin = [a \in Callers |-> ""]
    /\ attempts = [a \in Callers |-> <<>>]
    /\ loginTokens = <<>>
    /\ activated = <<>>
    /\ InitRest
    /\ lastOp = NoOp

NextWrite ==
    \/ \E x \in Writers, scrapeID \in ScrapeIDs, f \in Facts : Write_Begin(x, scrapeID, f)
    \/ \E x \in Writers : Write_Query(x)
    \/ \E x \in Writers : Write_Insert(x)
    \/ \E x \in Writers : Write_Commit(x)
    \/ \E x \in Writers : Write_Fail(x)

SpecWrite == InitWrite /\ [][NextWrite]_vars

(***************************************************************************)
(* The ScheduleRequest DB.FindMissingSchedules builds for feed f.  sc is   *)
(* the LATERAL subquery on scrapes (latest scheduled_start_at first, LIMIT *)
(* LatestLimit), ps the one on posts (latest posted_at first, LIMIT        *)
(* LatestLimit).  The feed's row is joined with every row of sc and, by    *)
(* the LEFT JOIN, with every row of ps or, when ps is empty, with one row  *)
(* of NULLs.  GROUP BY f.id then aggregates the joined rows: jsonb_agg of  *)
(* sc.* has one element per joined row, jsonb_agg of ps.* one per joined   *)
(* row whose ps.id is not NULL.                                            *)
(***************************************************************************)
NewestScrape(S) ==
    CHOOSE i \in S : \A j \in S :
        \/ scrapes[i].scheduled_start_at > scrapes[j].scheduled_start_at
        \/ scrapes[i].scheduled_start_at = scrapes[j].scheduled_start_at /\ i <= j

RECURSIVE NewestScrapesFirst(_)
NewestScrapesFirst(S) ==
    IF S = {} THEN <<>>
    ELSE <<NewestScrape(S)>> \o NewestScrapesFirst(S \ {NewestScrape(S)})

sc(f) ==
    LET rows == NewestScrapesFirst({i \in ScrapeIDs : scrapes[i].feed_id = f})
    IN  SubSeq(rows, 1, Min(LatestLimit, Len(rows)))

ps(f) ==
    LET rows == LatestFirst({i \in PostIDs : posts[i].feed_id = f})
    IN  SubSeq(rows, 1, Min(LatestLimit, Len(rows)))

Joined(f) ==
    {<<i, j>> : i \in 1..Len(sc(f)),
                j \in IF ps(f) = <<>> THEN {NoID} ELSE 1..Len(ps(f))}

RECURSIVE Aggregate(_, _, _)
Aggregate(rows, col, before) ==
    IF rows = {} THEN <<>>
    ELSE LET r == CHOOSE x \in rows : \A y \in rows : before[x[col], y[col]]
         IN  <<r[col]>> \o Aggregate(rows \ {r}, col, before)

LatestScrapes(f) ==
    LET agg == Aggregate(Joined(f), 1, [i, j \in 0..Len(sc(f)) |-> i <= j])
    IN  [n \in 1..Len(agg) |-> sc(f)[agg[n]]]

LatestDatums(f) ==
    LET agg == Aggregate({r \in Joined(f) : r[2] # NoID}, 2,
                         [i, j \in 0..Len(ps(f)) |->
                             ps(f)[i] >= ps(f)[j]])
    IN  [n \in 1..Len(agg) |-> ps(f)[agg[n]]]

ScheduleRequest(f) ==
    [FeedID |-> f, Plugin |-> feeds[f].plugin,
     LatestScrapes |-> LatestScrapes(f), LatestDatums |-> LatestDatums(f)]

(***************************************************************************)
(* The scheduler asks for missing schedules while a scrape runner writes   *)
(* posts: the store of InitWrite, whose scrapes are all RUNNING.           *)
(***************************************************************************)
NextFind ==
    \/ \E scrapeID \in ScrapeIDs, f \in Facts : Write_Begin("x1", scrapeID, f)
    \/ Write_Query("x1")
    \/ Write_Insert("x1")
    \/ Write_Commit("x1")
    \/ Write_Fail("x1")
    \/ \E limit \in Limits : FindMissingSchedules("s1", limit)

SpecFind == InitWrite /\ [][NextFind]_vars

(***************************************************************************)
(* The plugin registry of the Discollector, in registration order, and     *)
(* what its plugins do with the urls a client can send: ConfigValidator    *)
(* accepts or rejects the url, ConfigCreator answers with a title and a    *)
(* config or fails.  u1 is claimed by every plugin and only the last one   *)
(* can create a config for it; u2 is claimed by p2 and p3, of which p2     *)
(* fails; u3 is claimed by p1, which fails; u4 is claimed by no plugin;    *)
(* u6 is claimed by p1 to p9, of which only p9 succeeds.                   *)
(***************************************************************************)
Registry == <<"p1", "p2", "p3", "p4", "p5", "p6", "p7", "p8", "p9", "p10">>

EntryURLs == {"u1", "u2", "u3", "u4", "u6"}

ConfigValidator(plugin, url) ==
    \/ url = "u1"
    \/ url = "u2" /\ plugin \in {"p2", "p3"}
    \/ url = "u3" /\ plugin = "p1"
    \/ url = "u6" /\ plugin # "p10"

ConfigCreatorFails(plugin, url) ==
    \/ url = "u1" /\ plugin # "p10"
    \/ url = "u2" /\ plugin = "p2"
    \/ url = "u3"
    \/ url = "u6" /\ plugin # "p9"

Elems(seq) == {seq[n] : n \in 1..Len(seq)}

(***************************************************************************)
(* PluginForEntrypoint(url, blacklist): the first plugin whose             *)
(* ConfigValidator accepts url and whose name is not in blacklist; "" for  *)
(* the NoPluginFound error.                                                *)
(***************************************************************************)
Candidates(url, bl) ==
    {n \in 1..Len(Registry) :
        ConfigValidator(Registry[n], url) /\ Registry[n] \notin Elems(bl)}

PluginForEntrypoint(url, bl) ==
    IF Candidates(url, bl) = {} THEN ""
    ELSE Registry[CHOOSE n \in Candidates(url, bl) :
                      \A m \in Candidates(url, bl) : n <= m]

(***************************************************************************)
(* FeedAPI.AddFeed: the key is verified and the body decoded; the loop     *)
(* starts with an empty blacklist.                                         *)
(***************************************************************************)
FeedAPI_AddFeed(a, key, folderID, url) ==
    /\ apc[a] = "idle"
    /\ apc' = [apc EXCEPT ![a] = "resolve"]
    /\ areq' = [areq EXCEPT ![a] = [NoRequest EXCEPT !.key = key,
                                        !.FolderID = folderID, !.URL = url]]
    /\ blacklist' = [blacklist EXCEPT ![a] = <<>>]
    /\ attempts' = [attempts EXCEPT ![a] = <<>>]
    /\ lastOp' = NoOp
    /\ UNCHANGED <<now, tableVars, txVars, claims, schedVars, writeVars,
                   aplugin, authVars, restVars>>

(***************************************************************************)
(* The request returns: its frame is gone.                                 *)
(***************************************************************************)
FeedAPI_Return(a) ==
    /\ apc' = [apc EXCEPT ![a] = "idle"]
    /\ areq' = [areq EXCEPT ![a] = NoRequest]
    /\ blacklist' = [blacklist EXCEPT ![a] = <<>>]
    /\ aplugin' = [aplugin EXCEPT ![a] = ""]
    /\ attempts' = [attempts EXCEPT ![a] = <<>>]

(***************************************************************************)
(* Top of the loop: PluginForEntrypoint(feed.URL, blacklist); its error    *)
(* ends the request.                                                       *)
(***************************************************************************)
FeedAPI_Resolve(a) ==
    /\ apc[a] = "resolve"
    /\ LET plugin == PluginForEntrypoint(areq[a].URL, blacklist[a])
       IN  IF plugin = ""
           THEN /\ FeedAPI_Return(a)
                /\ lastOp' = OpF("FeedAPI.AddFeed", NoID, "err", NoFact,
                                 "NoPluginFound")
           ELSE /\ aplugin' = [aplugin EXCEPT ![a] = plugin]
                /\ apc' = [apc EXCEPT ![a] = "check"]
                /\ lastOp' = NoOp
                /\ UNCHANGED <<areq, blacklist, attempts>>
    /\ UNCHANGED <<now, tableVars, txVars, claims, schedVars, writeVars, authVars, restVars>>

(***************************************************************************)
(* DB.CheckIfFeedExists, called with the request's folder_id as it came:   *)
(* no feed with that url and plugin, and the loop goes on; else the feed   *)
(* is inserted into feed_folders under that folder_id and the request      *)
(* answers with the feed's id and title.  The INSERT can fail, which ends  *)
(* the request with the error; with an empty folder_id it fails or stores  *)
(* a membership in no folder, as the schema decides.                       *)
(***************************************************************************)
ExistingFeeds(plugin, url) ==
    {i \in FeedIDs : feeds[i].url = url /\ feeds[i].plugin = plugin}

CheckIfFeedExists_NoRows(a) ==
    /\ apc[a] = "check"
    /\ apc' = [apc EXCEPT ![a] = "create"]
    /\ lastOp' = NoOp
    /\ UNCHANGED <<feedFolders, areq, blacklist, aplugin, attempts>>
    /\ UNCHANGED <<now, sessions, folders, feeds, scrapes, txVars, claims,
                   schedVars, writeVars, authVars, restVars>>

CheckIfFeedExists(a) ==
    /\ apc[a] = "check"
    /\ IF ExistingFeeds(aplugin[a], areq[a].URL) = {}
       THEN /\ apc' = [apc EXCEPT ![a] = "create"]
            /\ lastOp' = NoOp
            /\ UNCHANGED <<feedFolders, areq, blacklist, aplugin, attempts>>
       ELSE \E id \in ExistingFeeds(aplugin[a], areq[a].URL) :
               /\ FeedAPI_Return(a)
               /\ \/ /\ feedFolders' = feedFolders \cup
                            {<<UserOf(areq[a].key), areq[a].FolderID, id>>}
                     /\ lastOp' = OpF("FeedAPI.AddFeed", id, "nil",
                                      [NoFact EXCEPT !.Title = feeds[id].title],
                                      "exists")
                  \/ /\ UNCHANGED feedFolders
                     /\ lastOp' = OpF("FeedAPI.AddFeed", NoID, "err", NoFact,
                                      "CheckIfFeedExists")
    /\ UNCHANGED <<now, sessions, folders, feeds, scrapes, txVars, claims,
                   schedVars, writeVars, authVars, restVars>>

ConfigCreator_NoBlacklist(a) ==
    /\ apc[a] = "create"
    /\ IF ConfigCreatorFails(aplugin[a], areq[a].URL)
       THEN IF Len(attempts[a]) >= maxFailedResolutions
            THEN /\ FeedAPI_Return(a)
                 /\ lastOp' = OpF("FeedAPI.AddFeed", NoID, "err", NoFact,
                                  "ConfigCreator")
            ELSE /\ apc' = [apc EXCEPT ![a] = "resolve"]
                 /\ attempts' = [attempts EXCEPT ![a] = Append(@, aplugin[a])]
                 /\ lastOp' = NoOp
                 /\ UNCHANGED <<areq, aplugin, blacklist>>
       ELSE \E title \in Titles, initialConfig \in Configs :
               /\ areq' = [areq EXCEPT ![a].Title = title,
                                       ![a].Config = initialConfig]
               /\ apc' = [apc EXCEPT ![a] = "store"]
               /\ attempts' = [attempts EXCEPT ![a] = Append(@, aplugin[a])]
               /\ lastOp' = NoOp
               /\ UNCHANGED <<blacklist, aplugin>>
    /\ UNCHANGED <<now, tableVars, txVars, claims, schedVars, writeVars, authVars, restVars>>

(***************************************************************************)
(* plugin.ConfigCreator(feed.URL, handlerOpts).  When it fails: with       *)
(* maxFailedResolutions names in the blacklist the request ends with the   *)
(* error, else the plugin is blacklisted and the loop continues.           *)
(***************************************************************************)
ConfigCreator(a) ==
    /\ apc[a] = "create"
    /\ IF ConfigCreatorFails(aplugin[a], areq[a].URL)
       THEN IF Len(blacklist[a]) = maxFailedResolutions
            THEN /\ FeedAPI_Return(a)
                 /\ lastOp' = OpF("FeedAPI.AddFeed", NoID, "err", NoFact,
                                  "ConfigCreator")
            ELSE /\ blacklist' = [blacklist EXCEPT ![a] = Append(@, aplugin[a])]
                 /\ apc' = [apc EXCEPT ![a] = "resolve"]
                 /\ attempts' = [attempts EXCEPT ![a] = Append(@, aplugin[a])]
                 /\ lastOp' = NoOp
                 /\ UNCHANGED <<areq, aplugin>>
       ELSE \E title \in Titles, initialConfig \in Configs :
               /\ areq' = [areq EXCEPT ![a].Title = title,
                                       ![a].Config = initialConfig]
               /\ apc' = [apc EXCEPT ![a] = "store"]
               /\ attempts' = [attempts EXCEPT ![a] = Append(@, aplugin[a])]
               /\ lastOp' = NoOp
               /\ UNCHANGED <<blacklist, aplugin>>
    /\ UNCHANGED <<now, tableVars, txVars, claims, schedVars, writeVars, authVars, restVars>>

(***************************************************************************)
(* fa.s.AddFeed with the plugin and the created title and config; its id   *)
(* or its error is the answer of the request.                              *)
(***************************************************************************)
FeedAPI_Store(a) ==
    /\ apc[a] = "store"
    /\ AddFeed(areq[a].key, areq[a].FolderID, areq[a].Title, aplugin[a],
               areq[a].URL, areq[a].Config)
    /\ FeedAPI_Return(a)

(***************************************************************************)
(* Two users, each with a session, add feeds through the API, one request  *)
(* at a time, into their default folder or a folder of theirs.             *)
(***************************************************************************)
APIKeys == {"k1", "k2"}

InitAPI ==
    /\ now = 0
    /\ sessions = [k \in APIKeys |->
                      [user_id |-> IF k = "k1" THEN "a" ELSE "b", active |-> TRUE]]
    /\ folders = <<>>
    /\ feeds = <<>>
    /\ feedFolders = {}
    /\ scrapes = <<>>
    /\ pc = [w \in Workers |-> "idle"]
    /\ txNow = [w \in Workers |-> 0]
    /\ txLimit = [w \in Workers |-> 0]
    /\ snap = [w \in Workers |-> 0]
    /\ visited = [w \in Workers |-> {}]
    /\ ids = [w \in Workers |-> {}]
    /\ ss = [w \in Workers |-> {}]
    /\ claims = <<>>
    /\ spc = [s \in Schedulers |-> "idle"]
    /\ requests = [s \in Schedulers |-> {}]
    /\ sr = [s \in Schedulers |-> [FeedID |-> NoID, Plugin |-> ""]]
    /\ pending = [s \in Schedulers |-> <<>>]
    /\ posts = <<>>
    /\ wpc = [x \in Writers |-> "idle"]
    /\ wargs = [x \in Writers |-> NoArgs]
    /\ apc = [a \in Callers |-> "idle"]
    /\ areq = [a \in Callers |-> NoRequest]
    /\ blacklist = [a \in Callers |-> <<>>]
    /\ aplugin = [a \in Callers |-> ""]
    /\ attempts = [a \in Callers |-> <<>>]
    /\ loginTokens = <<>>
    /\ activated = <<>>
    /\ InitRest
    /\ lastOp = NoOp

NextAPI ==
    \/ \E key \in APIKeys, url \in EntryURLs :
          \E folderID \in {NoID} \cup
                   {f \in FolderIDs : folders[f].user_id = UserOf(key)} :
             FeedAPI_AddFeed("a1", key, folderID, url)
    \/ FeedAPI_Resolve("a1")
    \/ CheckIfFeedExists("a1")
    \/ ConfigCreator("a1")
    \/ FeedAPI_Store("a1")

SpecAPI == InitAPI /\ [][NextAPI]_vars

(***************************************************************************)
(* Login tokens and sessions.  A login_tokens row gets its token, its      *)
(* expires_at (TokenTTL after now()) and used = false from the column      *)
(* defaults; a sessions row gets a key no session has, and active = true.  *)
(***************************************************************************)
Users == {"a", "b"}
SessionKeys == {"k1", "k2", "k3"}
TokenTTL == 1

CreateLoginToken(userID) ==
    /\ Len(loginTokens) < MaxTokens
    /\ loginTokens' = Append(loginTokens, [user_id |-> userID,
                                           expires_at |-> now + TokenTTL,
                                           used |-> FALSE])
    /\ activated' = Append(activated, 0)
    /\ lastOp' = Op("CreateLoginToken", Len(loginTokens) + 1, "nil")
    /\ UNCHANGED <<now, tableVars, txVars, claims, schedVars, writeVars, apiVars,
                   restVars>>

(***************************************************************************)
(* DB.ActivateLoginToken: one UPDATE ... SET used = true WHERE token = $1  *)
(* AND expires_at > now() AND used = false RETURNING user_id.  No row:     *)
(* "token invalid".                                                        *)
(***************************************************************************)
ActivateLoginToken_Reusable(token) ==
    /\ IF /\ token \in 1..Len(loginTokens)
          /\ loginTokens[token].expires_at > now
       THEN /\ loginTokens' = [loginTokens EXCEPT ![token].used = TRUE]
            /\ activated' = [activated EXCEPT ![token] = Min(@ + 1, 2)]
            /\ lastOp' = OpF("ActivateLoginToken", token, "nil", NoFact,
                             loginTokens[token].user_id)
       ELSE /\ UNCHANGED <<loginTokens, activated>>
            /\ lastOp' = OpF("ActivateLoginToken", token, "token invalid",
                             NoFact, "")
    /\ UNCHANGED <<now, tableVars, txVars, claims, schedVars, writeVars, apiVars,
                   restVars>>

ActivateLoginToken(token) ==
    /\ IF /\ token \in 1..Len(loginTokens)
          /\ loginTokens[token].expires_at > now
          /\ loginTokens[token].used = FALSE
       THEN /\ loginTokens' = [loginTokens EXCEPT ![token].used = TRUE]
            /\ activated' = [activated EXCEPT ![token] = @ + 1]
            /\ lastOp' = OpF("ActivateLoginToken", token, "nil", NoFact,
                             loginTokens[token].user_id)
       ELSE /\ UNCHANGED <<loginTokens, activated>>
            /\ lastOp' = OpF("ActivateLoginToken", token, "token invalid",
                             NoFact, "")
    /\ UNCHANGED <<now, tableVars, txVars, claims, schedVars, writeVars, apiVars,
                   restVars>>

(***************************************************************************)
(* DB.CreateSession: INSERT INTO sessions (user_id, user_agent, ip)        *)
(* RETURNING key.                                                          *)
(***************************************************************************)
CreateSession(userID, key) ==
    /\ key \notin DOMAIN sessions
    /\ sessions' = [k \in DOMAIN sessions \cup {key} |->
                      IF k = key THEN [user_id |-> userID, active |-> TRUE]
                      ELSE sessions[k]]
    /\ lastOp' = OpF("CreateSession", NoID, "nil", NoFact, key)
    /\ UNCHANGED <<now, folders, feeds, feedFolders, scrapes, txVars, claims,
                   schedVars, writeVars, apiVars, authVars, restVars>>

(***************************************************************************)
(* DB.VerifyKey: SELECT id FROM sessions WHERE key = $1 AND active = TRUE. *)
(***************************************************************************)
VerifyKey(key) ==
    /\ lastOp' = OpF("VerifyKey", NoID,
                     IF key \in DOMAIN sessions /\ sessions[key].active
                     THEN "nil" ELSE "invalid or inactive token",
                     NoFact, key)
    /\ UNCHANGED <<now, tableVars, txVars, claims, schedVars, writeVars,
                   apiVars, authVars, restVars>>

(***************************************************************************)
(* DB.DeactivateSession: UPDATE sessions SET (active) = (false) WHERE key  *)
(* = $1.                                                                   *)
(***************************************************************************)
DeactivateSession_NoUpdate(key) ==
    /\ lastOp' = OpF("DeactivateSession", NoID, "nil", NoFact, key)
    /\ UNCHANGED <<now, tableVars, txVars, claims, schedVars, writeVars,
                   apiVars, authVars, restVars>>

DeactivateSession(key) ==
    /\ sessions' = [k \in DOMAIN sessions |->
                      IF k = key THEN [sessions[k] EXCEPT !.active = FALSE]
                      ELSE sessions[k]]
    /\ lastOp' = OpF("DeactivateSession", NoID, "nil", NoFact, key)
    /\ UNCHANGED <<now, folders, feeds, feedFolders, scrapes, txVars, claims,
                   schedVars, writeVars, apiVars, authVars, restVars>>

(***************************************************************************)
(* Logging in and out: tokens are created and activated, sessions created, *)
(* verified and deactivated, in any order, while the clock advances.       *)
(***************************************************************************)
NextAuth ==
    \/ Tick
    \/ \E userID \in Users : CreateLoginToken(userID)
    \/ \E token \in 1..(Len(loginTokens) + 1) : ActivateLoginToken(token)
    \/ \E userID \in Users, key \in SessionKeys : CreateSession(userID, key)
    \/ \E key \in SessionKeys : VerifyKey(key)
    \/ \E key \in SessionKeys : DeactivateSession(key)

SpecAuth == Init /\ [][NextAuth]_vars

(***************************************************************************)
(* DB.RemoveFeed: DELETE FROM feed_folders WHERE user_id = (SELECT user_id *)
(* FROM sessions WHERE key = $1 LIMIT 1) AND folder_id = $2 AND feed_id =  *)
(* $3.  A key with no session makes the subquery NULL and no row matches.  *)
(***************************************************************************)
RemoveFeed_AllFolders(sessionKey, folderID, feedID) ==
    /\ feedFolders' = {m \in feedFolders :
                          ~ /\ sessionKey \in DOMAIN sessions
                            /\ m[1] = UserOf(sessionKey)
                            /\ m[3] = feedID}
    /\ lastOp' = OpF("RemoveFeed", feedID, "nil", NoFact, sessionKey)

RemoveFeed(sessionKey, folderID, feedID) ==
    /\ feedFolders' = {m \in feedFolders :
                          ~ /\ sessionKey \in DOMAIN sessions
                            /\ m[1] = UserOf(sessionKey)
                            /\ m[2] = folderID
                            /\ m[3] = feedID}
    /\ lastOp' = OpF("RemoveFeed", feedID, "nil", NoFact, sessionKey)

(***************************************************************************)
(* FeedAPI.RemoveFeed, for a key that fa.ks.Verify accepted: a request     *)
(* without feed_id or folder_id is rejected, any other goes to the store.  *)
(***************************************************************************)
FeedAPI_RemoveFeed(key, folderID, feedID) ==
    /\ IF feedID = NoID \/ folderID = NoID
       THEN /\ lastOp' = OpF("RemoveFeed", feedID, "no feed or folder ID sent",
                             NoFact, key)
            /\ UNCHANGED feedFolders
       ELSE RemoveFeed(key, folderID, feedID)
    /\ UNCHANGED <<now, sessions, folders, feeds, scrapes, txVars, claims,
                   schedVars, writeVars, apiVars, authVars, restVars>>

(***************************************************************************)
(* Removing: user "a" has two folders and user "b" one; both feeds are in  *)
(* every folder, the first feed has two scrapes and a post.                *)
(***************************************************************************)
InitRemove ==
    /\ now = 0
    /\ sessions = [k \in APIKeys |->
                      [user_id |-> IF k = "k1" THEN "a" ELSE "b", active |-> TRUE]]
    /\ folders = <<[user_id |-> "a", name |-> DefaultFolderName],
                   [user_id |-> "a", name |-> "n1"],
                   [user_id |-> "b", name |-> DefaultFolderName]>>
    /\ feeds = <<[title |-> "t1", plugin |-> "p1", url |-> "u1"],
                 [title |-> "t1", plugin |-> "p1", url |-> "u2"]>>
    /\ feedFolders = {<<folders[f].user_id, f, id>> : f \in 1..3, id \in 1..2}
    /\ scrapes = <<Started(NewScrape(1, "p1", "c1", 0), 0),
                   Started(NewScrape(1, "p1", "c1", 1), 0),
                   Started(NewScrape(2, "p1", "c1", 2), 0)>>
    /\ pc = [w \in Workers |-> "idle"]
    /\ txNow = [w \in Workers |-> 0]
    /\ txLimit = [w \in Workers |-> 0]
    /\ snap = [w \in Workers |-> 0]
    /\ visited = [w \in Workers |-> {}]
    /\ ids = [w \in Workers |-> {}]
    /\ ss = [w \in Workers |-> {}]
    /\ claims = <<<<"w1">>, <<"w1">>, <<"w2">>>>
    /\ spc = [s \in Schedulers |-> "idle"]
    /\ requests = [s \in Schedulers |-> {}]
    /\ sr = [s \in Schedulers |-> [FeedID |-> NoID, Plugin |-> ""]]
    /\ pending = [s \in Schedulers |-> <<>>]
    /\ posts = <<NewPost(1, CHOOSE f \in PostFacts : TRUE)>>
    /\ wpc = [x \in Writers |-> "idle"]
    /\ wargs = [x \in Writers |-> NoArgs]
    /\ apc = [a \in Callers |-> "idle"]
    /\ areq = [a \in Callers |-> NoRequest]
    /\ blacklist = [a \in Callers |-> <<>>]
    /\ aplugin = [a \in Callers |-> ""]
    /\ attempts = [a \in Callers |-> <<>>]
    /\ loginTokens = <<>>
    /\ activated = <<>>
    /\ InitRest
    /\ lastOp = NoOp

NextRemove ==
    \E key \in SessionKeys, folderID \in {NoID} \cup FolderIDs,
       feedID \in {NoID} \cup FeedIDs :
          FeedAPI_RemoveFeed(key, folderID, feedID)

SpecRemove == InitRemove /\ [][NextRemove]_vars

(***************************************************************************)
(* The worker that StartScrapes returned a scrape to runs it and reports   *)
(* the outcome once: EndScrape when the run succeeded, ErrorScrape when it *)
(* failed.                                                                 *)
(***************************************************************************)
ClaimedBy(w, id) ==
    /\ id \in ScrapeIDs
    /\ claims[id] # <<>>
    /\ claims[id][Len(claims[id])] = w

Worker_EndScrape(w, id) ==
    /\ ClaimedBy(w, id)
    /\ id \notin reported
    /\ \E c \in Counters : EndScrape(id, c[1], c[2], c[3])
    /\ reported' = reported \cup {id}
    /\ UNCHANGED <<chapters, tqueue, handled>>

Worker_ErrorScrape(w, id) ==
    /\ ClaimedBy(w, id)
    /\ id \notin reported
    /\ \E err \in Errs : ErrorScrape(id, err)
    /\ reported' = reported \cup {id}
    /\ UNCHANGED <<chapters, tqueue, handled>>

Worker_Report(w, id) == Worker_EndScrape(w, id) \/ Worker_ErrorScrape(w, id)

(***************************************************************************)
(* Running: a feed with MaxScrapes scrapes that are due; a worker of the   *)
(* pool claims them and reports.                                           *)
(***************************************************************************)
InitRun ==
    /\ now = 0
    /\ sessions = [k \in Keys |-> [user_id |-> "a", active |-> TRUE]]
    /\ folders = <<[user_id |-> "a", name |-> DefaultFolderName]>>
    /\ feeds = <<[title |-> "t1", plugin |-> "p1", url |-> "u1"]>>
    /\ feedFolders = {<<"a", 1, 1>>}
    /\ scrapes = [i \in 1..MaxScrapes |-> NewScrape(1, "p1", "c1", i - MaxScrapes)]
    /\ pc = [w \in Workers |-> "idle"]
    /\ txNow = [w \in Workers |-> 0]
    /\ txLimit = [w \in Workers |-> 0]
    /\ snap = [w \in Workers |-> 0]
    /\ visited = [w \in Workers |-> {}]
    /\ ids = [w \in Workers |-> {}]
    /\ ss = [w \in Workers |-> {}]
    /\ claims = [i \in 1..MaxScrapes |-> <<>>]
    /\ spc = [s \in Schedulers |-> "idle"]
    /\ requests = [s \in Schedulers |-> {}]
    /\ sr = [s \in Schedulers |-> [FeedID |-> NoID, Plugin |-> ""]]
    /\ pending = [s \in Schedulers |-> <<>>]
    /\ posts = <<>>
    /\ wpc = [x \in Writers |-> "idle"]
    /\ wargs = [x \in Writers |-> NoArgs]
    /\ apc = [a \in Callers |-> "idle"]
    /\ areq = [a \in Callers |-> NoRequest]
    /\ blacklist = [a \in Callers |-> <<>>]
    /\ aplugin = [a \in Callers |-> ""]
    /\ attempts = [a \in Callers |-> <<>>]
    /\ loginTokens = <<>>
    /\ activated = <<>>
    /\ InitRest
    /\ lastOp = NoOp

NextRun ==
    \/ \E limit \in Limits : StartScrapes_Begin("w1", limit)
    \/ StartScrapes_Query("w1")
    \/ \E id \in ScrapeIDs : StartScrapes_Select("w1", id)
    \/ StartScrapes_Empty("w1")
    \/ StartScrapes_Update("w1")
    \/ StartScrapes_Commit("w1")
    \/ \E id \in ScrapeIDs : Worker_EndScrape("w1", id)
    \/ \E id \in ScrapeIDs : Worker_ErrorScrape("w1", id)

SpecRun == InitRun /\ [][NextRun]_vars

(***************************************************************************)
(* The proviso of the claim about running scrapes: a worker that has a     *)
(* scrape to report does report it.                                        *)
(***************************************************************************)
SpecRunFair ==
    /\ SpecRun
    /\ \A id \in 1..MaxScrapes : WF_vars(Worker_Report("w1", id))

(***************************************************************************)
(* The calls of the read API: a reader calls GetFeedPosts or GetPost with  *)
(* its key; the call changes nothing and returns what the query gives.     *)
(***************************************************************************)
Read_GetFeedPosts(key, feedID) ==
    /\ lastOp' = OpF("GetFeedPosts", feedID, "nil", NoFact, key)
    /\ UNCHANGED <<now, tableVars, txVars, claims, schedVars, writeVars,
                   apiVars, authVars, restVars>>

Read_GetPost(key, postID) ==
    /\ lastOp' = OpF("GetPost", postID,
                     IF GetPost(key, postID) = <<>> THEN "err" ELSE "nil",
                     NoFact, key)
    /\ UNCHANGED <<now, tableVars, txVars, claims, schedVars, writeVars,
                   apiVars, authVars, restVars>>

(***************************************************************************)
(* DB.MarkRead: INSERT INTO read_statuses (user_id, post_id) VALUES        *)
(* ((SELECT user_id FROM sessions WHERE key = $1), $2) ON CONFLICT DO      *)
(* NOTHING.  A key with no session gives a NULL user_id: the insert fails  *)
(* or stores a row of no user.                                             *)
(***************************************************************************)
MarkRead_AllUsers(sessionKey, postID) ==
    /\ IF sessionKey \in DOMAIN sessions
       THEN /\ readStatuses' = readStatuses \cup
                                  {<<sessions[k].user_id, postID>> : k \in DOMAIN sessions}
            /\ lastOp' = OpF("MarkRead", postID, "nil", NoFact, sessionKey)
       ELSE \/ /\ UNCHANGED readStatuses
               /\ lastOp' = OpF("MarkRead", postID, "err", NoFact, sessionKey)
            \/ /\ readStatuses' = readStatuses \cup {<<"", postID>>}
               /\ lastOp' = OpF("MarkRead", postID, "nil", NoFact, sessionKey)
    /\ UNCHANGED <<now, tableVars, txVars, claims, schedVars, writeVars,
                   apiVars, authVars, runVars>>

MarkRead(sessionKey, postID) ==
    /\ IF sessionKey \in DOMAIN sessions
       THEN /\ readStatuses' = readStatuses \cup {<<UserOf(sessionKey), postID>>}
            /\ lastOp' = OpF("MarkRead", postID, "nil", NoFact, sessionKey)
       ELSE \/ /\ UNCHANGED readStatuses
               /\ lastOp' = OpF("MarkRead", postID, "err", NoFact, sessionKey)
            \/ /\ readStatuses' = readStatuses \cup {<<"", postID>>}
               /\ lastOp' = OpF("MarkRead", postID, "nil", NoFact, sessionKey)
    /\ UNCHANGED <<now, tableVars, txVars, claims, schedVars, writeVars,
                   apiVars, authVars, runVars>>

(***************************************************************************)
(* Reading: users "a" (two sessions) and "b" read the posts of two feeds,  *)
(* mark them read and log out.                                             *)
(***************************************************************************)
ReadKeys == {"k1", "k2", "k3", "k4"}

InitRead ==
    /\ now = 0
    /\ sessions = [k \in ReadKeys \ {"k4"} |->
                      [user_id |-> IF k = "k2" THEN "b" ELSE "a", active |-> TRUE]]
    /\ folders = <<[user_id |-> "a", name |-> DefaultFolderName],
                   [user_id |-> "b", name |-> DefaultFolderName]>>
    /\ feeds = <<[title |-> "t1", plugin |-> "p1", url |-> "u1"],
                 [title |-> "t1", plugin |-> "p1", url |-> "u2"]>>
    /\ feedFolders = {<<"a", 1, 1>>, <<"a", 1, 2>>, <<"b", 2, 1>>}
    /\ scrapes = <<Started(NewScrape(1, "p1", "c1", 0), 0),
                   Started(NewScrape(2, "p1", "c1", 1), 0)>>
    /\ pc = [w \in Workers |-> "idle"]
    /\ txNow = [w \in Workers |-> 0]
    /\ txLimit = [w \in Workers |-> 0]
    /\ snap = [w \in Workers |-> 0]
    /\ visited = [w \in Workers |-> {}]
    /\ ids = [w \in Workers |-> {}]
    /\ ss = [w \in Workers |-> {}]
    /\ claims = <<<<"w1">>, <<"w2">>>>
    /\ spc = [s \in Schedulers |-> "idle"]
    /\ requests = [s \in Schedulers |-> {}]
    /\ sr = [s \in Schedulers |-> [FeedID |-> NoID, Plugin |-> ""]]
    /\ pending = [s \in Schedulers |-> <<>>]
    /\ posts = <<NewPost(1, [Kind |-> "Post", Title |-> "A", Author |-> "au",
                             Body |-> "x", OriginalURL |-> "u1", PostedAt |-> 0]),
                 NewPost(2, [Kind |-> "Post", Title |-> "B", Author |-> "au",
                             Body |-> "x", OriginalURL |-> "u2", PostedAt |-> 0])>>
    /\ wpc = [x \in Writers |-> "idle"]
    /\ wargs = [x \in Writers |-> NoArgs]
    /\ apc = [a \in Callers |-> "idle"]
    /\ areq = [a \in Callers |-> NoRequest]
    /\ blacklist = [a \in Callers |-> <<>>]
    /\ aplugin = [a \in Callers |-> ""]
    /\ attempts = [a \in Callers |-> <<>>]
    /\ loginTokens = <<>>
    /\ activated = <<>>
    /\ InitRest
    /\ lastOp = NoOp

NextRead ==
    \/ \E key \in ReadKeys, feedID \in FeedIDs : Read_GetFeedPosts(key, feedID)
    \/ \E key \in ReadKeys, postID \in PostIDs : Read_GetPost(key, postID)
    \/ \E key \in ReadKeys, postID \in PostIDs : MarkRead(key, postID)
    \/ \E key \in ReadKeys : DeactivateSession(key)

SpecRead == InitRead /\ [][NextRead]_vars

(***************************************************************************)
(* Concurrent requests: two AddFeed requests, of the same user or of two,  *)
(* for the one url "u2" run at the same time; each step of a request is    *)
(* one statement or transaction of its own.                                *)
(***************************************************************************)
NextRace ==
    \/ Tick
    \/ \E a \in Callers, key \in APIKeys : FeedAPI_AddFeed(a, key, NoID, "u2")
    \/ \E a \in Callers : FeedAPI_Resolve(a)
    \/ \E a \in Callers : CheckIfFeedExists(a)
    \/ \E a \in Callers : ConfigCreator(a)
    \/ \E a \in Callers : FeedAPI_Store(a)

SpecRace == InitAPI /\ [][NextRace]_vars

(***************************************************************************)
(* Refreshing: one scrape runner writes posts whose url, title and         *)
(* posted_at vary, through scrapes of both feeds.                          *)
(***************************************************************************)
RefreshFacts ==
    [Kind : {"Post"}, Title : {"A", "B"}, Author : {"au"}, Body : {"x"},
     OriginalURL : {"u1", "u2"}, PostedAt : {0, 1}]

NextRefresh ==
    \/ \E scrapeID \in ScrapeIDs, f \in RefreshFacts : Write_Begin("x1", scrapeID, f)
    \/ Write_Query("x1")
    \/ Write_Insert("x1")
    \/ Write_Commit("x1")
    \/ Write_Fail("x1")

SpecRefresh == InitWrite /\ [][NextRefresh]_vars

(***************************************************************************)
(* The fictionpress plugin.  A task url is the text Sprintf builds, kept   *)
(* as its pieces; the route of the plugin matches a story url of either    *)
(* host and gives RouteParams: 0 the match, 1 the host, 2 the story, 3 the *)
(* chapter digits, 4 the rest.                                             *)
(***************************************************************************)
Hosts == {"fictionpress.com", "fanfiction.net"}
Stories == {"s1", "s2"}

TaskURL(host, story, val) == <<"https://www.", host, "/s/", story, "/", val>>

RouteParams(url) ==
    [i \in 0..4 |-> CASE i = 0 -> url
                      [] i = 1 -> url[2]
                      [] i = 2 -> url[4]
                      [] i = 3 -> url[6]
                      [] OTHER -> ""]

ErrorResponse == [Err |-> TRUE, Facts |-> <<>>, Tasks |-> <<>>]

(***************************************************************************)
(* storyPage: the page is fetched and parsed (ok), which may fail; the     *)
(* response carries the one post of the page and, when the chapter of the  *)
(* route is "1", a task for every option of the chapter select whose value *)
(* is not "1", always on www.fictionpress.com.                             *)
(***************************************************************************)
NotFirstChapter(val) == val # "1"

storyPage_AllOptions(url, options, ok) ==
    IF ~ok THEN ErrorResponse
    ELSE [Err |-> FALSE,
          Facts |-> <<[NoFact EXCEPT !.Kind = "Post", !.Author = "au", !.Body = "x"]>>,
          Tasks |-> IF RouteParams(url)[3] = "1"
                    THEN [n \in 1..Len(options) |->
                            TaskURL("fictionpress.com", RouteParams(url)[2], options[n])]
                    ELSE <<>>]

storyPage(url, options, ok) ==
    IF ~ok THEN ErrorResponse
    ELSE [Err |-> FALSE,
          Facts |-> <<[NoFact EXCEPT !.Kind = "Post", !.Author = "au", !.Body = "x"]>>,
          Tasks |-> IF RouteParams(url)[3] = "1"
                    THEN LET vals == SelectSeq(options, NotFirstChapter)
                         IN  [n \in 1..Len(vals) |->
                                TaskURL("fictionpress.com", RouteParams(url)[2], vals[n])]
                    ELSE <<>>]

(***************************************************************************)
(* The scrape runner takes the task at the head of the queue, calls the    *)
(* handler of its route and queues the tasks of the response, one level    *)
(* below the task.                                                         *)
(***************************************************************************)
Runner_Dispatch ==
    /\ tqueue # <<>>
    /\ \E ok \in BOOLEAN :
          LET t == Head(tqueue)
              resp == storyPage(t.URL, chapters, ok)
          IN  /\ handled' = Append(handled, [task |-> t, resp |-> resp])
              /\ tqueue' = Tail(tqueue) \o
                              [n \in 1..Len(resp.Tasks) |->
                                 [URL |-> resp.Tasks[n], depth |-> t.depth + 1]]
    /\ lastOp' = NoOp
    /\ UNCHANGED <<now, tableVars, txVars, claims, schedVars, writeVars,
                   apiVars, authVars, readVars, reported, chapters>>

(***************************************************************************)
(* A scrape of a story: the chapter select of its pages lists the chapters *)
(* "1".."n" (a story of one chapter has no select), and the scrape is      *)
(* seeded with the url of one chapter.                                     *)
(***************************************************************************)
InitStory ==
    /\ now = 0
    /\ sessions = [k \in Keys |-> [user_id |-> "a", active |-> TRUE]]
    /\ folders = <<[user_id |-> "a", name |-> DefaultFolderName]>>
    /\ feeds = <<[title |-> "t1", plugin |-> "fictionpress", url |-> "u1"]>>
    /\ feedFolders = {<<"a", 1, 1>>}
    /\ scrapes = <<Started(NewScrape(1, "fictionpress", "c1", 0), 0)>>
    /\ pc = [w \in Workers |-> "idle"]
    /\ txNow = [w \in Workers |-> 0]
    /\ txLimit = [w \in Workers |-> 0]
    /\ snap = [w \in Workers |-> 0]
    /\ visited = [w \in Workers |-> {}]
    /\ ids = [w \in Workers |-> {}]
    /\ ss = [w \in Workers |-> {}]
    /\ claims = <<<<"w1">>>>
    /\ spc = [s \in Schedulers |-> "idle"]
    /\ requests = [s \in Schedulers |-> {}]
    /\ sr = [s \in Schedulers |-> [FeedID |-> NoID, Plugin |-> ""]]
    /\ pending = [s \in Schedulers |-> <<>>]
    /\ posts = <<>>
    /\ wpc = [x \in Writers |-> "idle"]
    /\ wargs = [x \in Writers |-> NoArgs]
    /\ apc = [a \in Callers |-> "idle"]
    /\ areq = [a \in Callers |-> NoRequest]
    /\ blacklist = [a \in Callers |-> <<>>]
    /\ aplugin = [a \in Callers |-> ""]
    /\ attempts = [a \in Callers |-> <<>>]
    /\ loginTokens = <<>>
    /\ activated = <<>>
    /\ readStatuses = {}
    /\ reported = {}
    /\ \E n \in 0..MaxChapters :
          /\ chapters = [c \in 1..n |-> ToString(c)]
          /\ \E host \in Hosts, story \in Stories, c \in 1..(n + 1) :
                tqueue = <<[URL |-> TaskURL(host, story, ToString(c)), depth |-> 0]>>
    /\ handled = <<>>
    /\ lastOp = NoOp

NextStory == Runner_Dispatch

SpecStory == InitStory /\ [][NextStory]_vars

(***************************************************************************)
(* C1: the state of a scrape changes only along WAITING -> RUNNING,        *)
(* RUNNING -> SUCCESS and RUNNING -> ERRORED; in particular EndScrape      *)
(* never moves a scrape that is WAITING, SUCCESS or ERRORED.               *)
(***************************************************************************)
Edges == {<<"WAITING", "RUNNING">>, <<"RUNNING", "SUCCESS">>, <<"RUNNING", "ERRORED">>}

C1_OnlyLifecycleEdges ==
    [][\A id \in ScrapeIDs :
          scrapes'[id].state # scrapes[id].state
              => <<scrapes[id].state, scrapes'[id].state>> \in Edges]_vars

(***************************************************************************)
(* C2: every scrape id is returned by at most one StartScrapes call of the *)
(* whole run; the rows two open calls have selected are disjoint, and a    *)
(* row a call has selected is not RUNNING already.                         *)
(***************************************************************************)
C2_ClaimedOnce ==
    /\ \A id \in ScrapeIDs : Len(claims[id]) <= 1
    /\ \A w1, w2 \in Workers :
          (w1 # w2 /\ pc[w1] # "idle" /\ pc[w2] # "idle") => ids[w1] \cap ids[w2] = {}
    /\ \A w \in Workers, id \in ScrapeIDs :
          (pc[w] # "idle" /\ id \in ids[w]) => scrapes[id].state = "WAITING"

C2_Witness ==
    \E w1, w2 \in Workers :
        /\ w1 # w2
        /\ pc[w1] = "commit" /\ ss[w1] # {}
        /\ pc[w2] = "commit" /\ ss[w2] # {}

(***************************************************************************)
(* C3: StartScrapes(limit) returns at most limit scrapes; every scrape it  *)
(* selects is, when it is selected, WAITING, scheduled no later than the   *)
(* transaction's now() and has fewer than 3 errors; when the call returns, *)
(* each returned scrape was WAITING and is RUNNING with started_at set.    *)
(***************************************************************************)
C3_StartScrapes ==
    [][\A w \in Workers :
          /\ \A id \in ids'[w] \ ids[w] :
                /\ scrapes[id].state = "WAITING"
                /\ scrapes[id].scheduled_start_at <= txNow[w]
                /\ txNow[w] <= now
                /\ Len(scrapes[id].errors) < MaxErrors
          /\ (pc[w] = "commit" /\ pc'[w] = "idle" /\ lastOp'.res = "nil")
                => /\ Cardinality(ss[w]) <= txLimit[w]
                   /\ \A id \in ss[w] :
                         /\ scrapes[id].state = "WAITING"
                         /\ scrapes'[id].state = "RUNNING"
                         /\ scrapes'[id].started_at # NULL
                         /\ Len(scrapes'[id].errors) < MaxErrors]_vars

C3_Witness ==
    /\ lastOp = Op("StartScrapes", NoID, "nil")
    /\ \E id, other \in ScrapeIDs :
          /\ scrapes[id].state = "RUNNING" /\ scrapes[id].started_at # NULL
          /\ scrapes[other].state = "WAITING"

(***************************************************************************)
(* C4: two workers call StartScrapes(10) at once on a store that holds 5   *)
(* claimable scrapes: once both calls have returned, each of the 5 was     *)
(* returned to exactly one of them and none is WAITING; no scrape is ever  *)
(* returned twice.                                                         *)
(***************************************************************************)
C4_ConcurrentClaim ==
    /\ \A id \in ScrapeIDs : Len(claims[id]) <= 1
    /\ (\A w \in Workers : pc[w] = "idle")
          => \A id \in 2..(C4Scrapes + 1) :
                Len(claims[id]) = 1 /\ scrapes[id].state = "RUNNING"

C4_Witness ==
    /\ \A w \in Workers : pc[w] = "idle"
    /\ \E id, other \in 2..(C4Scrapes + 1) :
          claims[id] = <<"w1">> /\ claims[other] = <<"w2">>

(***************************************************************************)
(* C5: every feed has at most one scrape in state WAITING.                 *)
(***************************************************************************)
Waiting(f) == {i \in ScrapeIDs : scrapes[i].feed_id = f /\ scrapes[i].state = "WAITING"}

C5_OneWaitingPerFeed == \A f \in FeedIDs : Cardinality(Waiting(f)) <= 1

(***************************************************************************)
(* C5 as amended: no two scrapes have the same plugin, scheduled_start_at  *)
(* and config, so a feed has at most one WAITING scrape per schedule; it   *)
(* can have several WAITING scrapes with different schedules.              *)
(***************************************************************************)
C5_OneScrapePerSchedule ==
    \A i, j \in ScrapeIDs :
        (/\ scrapes[i].plugin = scrapes[j].plugin
         /\ scrapes[i].scheduled_start_at = scrapes[j].scheduled_start_at
         /\ scrapes[i].config = scrapes[j].config) => i = j

C5_Witness ==
    \E f \in FeedIDs : Cardinality(Waiting(f)) >= 2

(***************************************************************************)
(* C6: ErrorScrape(id, err) on a RUNNING scrape leaves the scrape ERRORED  *)
(* with err appended to its errors.                                        *)
(***************************************************************************)
C6_ErrorScrapeMarksErrored ==
    [][\A id \in ScrapeIDs :
          (lastOp' = Op("ErrorScrape", id, "nil") /\ scrapes[id].state = "RUNNING")
              => /\ scrapes'[id].state = "ERRORED"
                 /\ Len(scrapes'[id].errors) = Len(scrapes[id].errors) + 1
                 /\ scrapes'[id].errors[Len(scrapes'[id].errors)] \in Errs]_vars

(***************************************************************************)
(* C7: writing a post is idempotent: for scrapes s1, s2 of one feed and a  *)
(* post f, Write(s1, f) followed by Write(s2, f) leaves the posts table as *)
(* Write(s1, f) alone does, with exactly one row for f.                    *)
(***************************************************************************)
C7_WriteIdempotent ==
    \A s1, s2 \in ScrapeIDs, f \in PostFacts :
        scrapes[s1].feed_id = scrapes[s2].feed_id
            => LET once == WriteTx(posts, s1, f)
               IN  /\ WriteTx(once, s2, f) = once
                   /\ Cardinality({i \in 1..Len(once) :
                           once[i].content_hash = ContentHash(f)}) = 1

C7_Witness ==
    /\ lastOp.op = "Write" /\ lastOp.res = "nil" /\ lastOp.via = "hash exists"
    /\ \E i \in PostIDs :
          /\ posts[i].content_hash = ContentHash(lastOp.fact)
          /\ posts[i].feed_id = scrapes[lastOp.id].feed_id
          /\ lastOp.id = 2

(***************************************************************************)
(* C8: no two post rows of one feed have the same content_hash, also when  *)
(* the hash checks and inserts of concurrent Write calls overlap.          *)
(***************************************************************************)
C8_HashUniquePerFeed ==
    \A i, j \in PostIDs :
        (posts[i].feed_id = posts[j].feed_id
         /\ posts[i].content_hash = posts[j].content_hash) => i = j

C8_Witness ==
    /\ lastOp.op = "Write" /\ lastOp.via = "inserted"
    /\ \E x \in Writers :
          /\ wpc[x] = "insert"
          /\ wargs[x].f = lastOp.fact
          /\ scrapes[wargs[x].scrapeID].feed_id = scrapes[lastOp.id].feed_id

(***************************************************************************)
(* C9: the posts table never holds two rows with the same url; a Write     *)
(* that commits a post whose url is there already adds no row and          *)
(* overwrites the title, author, body and content_hash of that row.        *)
(***************************************************************************)
C9_URLUniqueRefresh ==
    [][/\ \A i, j \in 1..Len(posts') : posts'[i].url = posts'[j].url => i = j
       /\ \A i \in PostIDs :
             (lastOp'.op = "Write" /\ lastOp'.res = "nil"
              /\ lastOp'.via \notin {"begin failed", "hash exists"}
              /\ posts[i].url = lastOp'.fact.OriginalURL)
                 => /\ Len(posts') = Len(posts)
                    /\ posts'[i].title = lastOp'.fact.Title
                    /\ posts'[i].author = lastOp'.fact.Author
                    /\ decompressText(posts'[i].body) = lastOp'.fact.Body
                    /\ posts'[i].content_hash = ContentHash(lastOp'.fact)]_vars

C9_Witness ==
    /\ lastOp.op = "Write" /\ lastOp.via = "refreshed"
    /\ \E i \in PostIDs :
          posts[i].url = lastOp.fact.OriginalURL /\ posts[i].title = lastOp.fact.Title

(***************************************************************************)
(* C10: read-your-write: when Write(scrape_id, post) has returned nil,     *)
(* GetFeedPosts for the feed of that scrape, with the key of a session and *)
(* a limit that covers the feed, returns the post.                         *)
(***************************************************************************)
C10_ReadYourWrite ==
    (lastOp.op = "Write" /\ lastOp.res = "nil")
        => LET got == GetFeedPosts("k1", scrapes[lastOp.id].feed_id, Len(posts), 0)
           IN  \E n \in 1..Len(got) :
                   /\ got[n].OriginalURL = lastOp.fact.OriginalURL
                   /\ got[n].Title = lastOp.fact.Title
                   /\ got[n].Author = lastOp.fact.Author

(***************************************************************************)
(* C11: Write with a fact that is no Post returns an error and leaves the  *)
(* store as it was: the call opens no transaction (no call is in progress  *)
(* with such a fact) and the posts table and every other table are         *)
(* unchanged by the step.                                                  *)
(***************************************************************************)
C11_NonPostRejected ==
    [][/\ (lastOp'.op = "Write" /\ lastOp'.fact.Kind # "Post")
            => /\ lastOp'.res = "err"
               /\ UNCHANGED <<posts, wpc, wargs, tableVars>>
       /\ \A x \in Writers : wpc'[x] # "idle" => wargs'[x].f.Kind = "Post"]_vars

C11_Witness ==
    /\ lastOp.op = "Write" /\ lastOp.fact = OtherFact /\ lastOp.res = "err"
    /\ Len(posts) > 0

(***************************************************************************)
(* C12 as stated: after InsertSchedule has executed the INSERT of a        *)
(* schedule, there is exactly one scrape with that plugin,                 *)
(* scheduled_start_at and config, and it is in state WAITING.              *)
(***************************************************************************)
C12_OneWaitingRow ==
    [][\A s \in Schedulers :
          (spc[s] = "insert" /\ pending[s] # <<>> /\ pending'[s] = Tail(pending[s]))
              => LET sch == Head(pending[s])
                     rows == ScheduleRows(scrapes', sr[s].Plugin,
                                          sch.ScheduledStartAt, sch.Config)
                 IN  /\ Cardinality(rows) = 1
                     /\ \A i \in rows : scrapes'[i].state = "WAITING"]_vars

(***************************************************************************)
(* C12 as amended: after InsertSchedule has executed the INSERT of a       *)
(* schedule there is exactly one scrape with that plugin,                  *)
(* scheduled_start_at and config; the statement adds that row, WAITING and *)
(* of the request's feed, when there was none, and changes nothing when    *)
(* there was one (whatever its state and feed); no INSERT and no           *)
(* InsertSchedule call returns an error.                                   *)
(***************************************************************************)
C12_InsertScheduleIdempotent ==
    [][/\ \A s \in Schedulers :
            (spc[s] = "insert" /\ pending[s] # <<>> /\ pending'[s] = Tail(pending[s]))
                => LET sch == Head(pending[s])
                       before == ScheduleRows(scrapes, sr[s].Plugin,
                                              sch.ScheduledStartAt, sch.Config)
                       after == ScheduleRows(scrapes', sr[s].Plugin,
                                             sch.ScheduledStartAt, sch.Config)
                   IN  /\ Cardinality(after) = 1
                       /\ before # {} => scrapes' = scrapes
                       /\ before = {} =>
                             /\ after = {Len(scrapes) + 1}
                             /\ scrapes' = Append(scrapes, scrapes'[Len(scrapes) + 1])
                             /\ scrapes'[Len(scrapes) + 1].state = "WAITING"
                             /\ scrapes'[Len(scrapes) + 1].feed_id = sr[s].FeedID
       /\ lastOp'.op \in {"InsertSchedule", "InsertSchedule.Exec"}
            => lastOp'.res = "nil"]_vars

C12_Witness ==
    /\ lastOp.op = "InsertSchedule.Exec" /\ lastOp.via = "conflict"
    /\ scrapes[lastOp.id].state = "WAITING"
    /\ \E s1, s2 \in Schedulers :
          /\ s1 # s2
          /\ spc[s1] = "insert" /\ spc[s2] = "insert"
          /\ sr[s1] = sr[s2]
          /\ sr[s1].FeedID = scrapes[lastOp.id].feed_id

(***************************************************************************)
(* C13: FindMissingSchedules(limit) returns at most limit requests, one    *)
(* per feed, only for feeds without a WAITING scrape; each request carries *)
(* the feed's latest scrapes, at most LatestLimit and each once, and its   *)
(* latest posts, at most LatestLimit and each once; a feed without posts   *)
(* is returned with an empty post list.                                    *)
(***************************************************************************)
NoDuplicates(seq) == \A m, n \in 1..Len(seq) : seq[m] = seq[n] => m = n

C13_FindMissingSchedules ==
    [][\A s \in Schedulers, limit \in Limits :
          FindMissingSchedules(s, limit)
              => /\ Cardinality(requests'[s]) <= limit
                 /\ \A f \in requests'[s] :
                       LET r == ScheduleRequest(f)
                       IN  /\ ~ \E i \in ScrapeIDs : /\ scrapes[i].feed_id = f
                                                     /\ scrapes[i].state = "WAITING"
                           /\ Len(r.LatestScrapes) <= LatestLimit
                           /\ NoDuplicates(r.LatestScrapes)
                           /\ \A n \in 1..Len(r.LatestScrapes) :
                                 scrapes[r.LatestScrapes[n]].feed_id = f
                           /\ Len(r.LatestDatums) <= LatestLimit
                           /\ NoDuplicates(r.LatestDatums)
                           /\ \A n \in 1..Len(r.LatestDatums) :
                                 posts[r.LatestDatums[n]].feed_id = f
                           /\ (~ \E i \in PostIDs : posts[i].feed_id = f)
                                 => r.LatestDatums = <<>>]_vars

(***************************************************************************)
(* The first plugin of the registry that accepts url and can create a      *)
(* config for it ("" when there is none), and the plugins that accept url  *)
(* before it, all of which fail.                                           *)
(***************************************************************************)
Good(url) ==
    {n \in 1..Len(Registry) : /\ ConfigValidator(Registry[n], url)
                              /\ ~ConfigCreatorFails(Registry[n], url)}

FirstGood(url) ==
    IF Good(url) = {} THEN ""
    ELSE Registry[CHOOSE n \in Good(url) : \A m \in Good(url) : n <= m]

FailingBefore(url) ==
    {n \in 1..Len(Registry) : /\ ConfigValidator(Registry[n], url)
                              /\ \A m \in Good(url) : n < m}

(***************************************************************************)
(* What C14 and its amendment share.  In the AddFeed loop a plugin whose   *)
(* ConfigCreator failed is put on the blacklist when the loop goes on, and *)
(* the plugin the loop works with accepts the url and is never one of the  *)
(* blacklist; a feed the request stores is stored under the first plugin   *)
(* that accepts the url and whose ConfigCreator succeeds; the request      *)
(* fails with NoPluginFound exactly when no plugin off the blacklist       *)
(* accepts the url, and then stores no feed.                               *)
(***************************************************************************)
BlacklistStep(a) ==
    /\ (apc[a] = "create" /\ apc'[a] = "resolve")
          => blacklist'[a] = Append(blacklist[a], aplugin[a])
    /\ apc'[a] \in {"check", "create", "store"}
          => /\ aplugin'[a] \notin Elems(blacklist'[a])
             /\ ConfigValidator(aplugin'[a], areq'[a].URL)
    /\ (apc[a] = "store" /\ apc'[a] = "idle" /\ lastOp'.res = "nil")
          => /\ feeds' = Append(feeds, feeds'[lastOp'.id])
             /\ feeds'[lastOp'.id].plugin = FirstGood(areq[a].URL)
             /\ feeds'[lastOp'.id].url = areq[a].URL
             /\ Elems(attempts[a]) =
                   {Registry[n] : n \in FailingBefore(areq[a].URL)}
                       \cup {FirstGood(areq[a].URL)}
    /\ (apc[a] = "resolve" /\ apc'[a] # "resolve")
          => (apc'[a] = "idle" <=> Candidates(areq[a].URL, blacklist[a]) = {})
    /\ (apc[a] = "resolve" /\ apc'[a] = "idle")
          => /\ lastOp'.res = "err" /\ lastOp'.via = "NoPluginFound"
             /\ feeds' = feeds

(***************************************************************************)
(* C14 as stated: beyond the above, a request for a url that some plugin   *)
(* accepts and can create a config for never ends with the error of the    *)
(* resolution loop: it reaches that plugin.                                *)
(***************************************************************************)
C14_BlacklistFindsAlternative ==
    [][\A a \in Callers :
          /\ BlacklistStep(a)
          /\ (apc[a] \in {"resolve", "create"} /\ apc'[a] = "idle")
                => FirstGood(areq[a].URL) = ""]_vars

(***************************************************************************)
(* C14 as amended: a request for a url that some plugin accepts and can    *)
(* create a config for, with at most maxFailedResolutions failing plugins  *)
(* accepting the url before it, never ends with the error of the           *)
(* resolution loop; with more failing plugins before it the request ends   *)
(* with the ConfigCreator error, the blacklist full, and stores no feed.   *)
(***************************************************************************)
C14_BlacklistWithinLimit ==
    [][\A a \in Callers :
          /\ BlacklistStep(a)
          /\ (apc[a] \in {"resolve", "create"} /\ apc'[a] = "idle")
                => \/ FirstGood(areq[a].URL) = ""
                   \/ /\ Cardinality(FailingBefore(areq[a].URL))
                            > maxFailedResolutions
                      /\ lastOp'.via = "ConfigCreator"
                      /\ Len(blacklist[a]) = maxFailedResolutions
                      /\ feeds' = feeds]_vars

C14_Witness ==
    /\ lastOp.op = "AddFeed" /\ lastOp.res = "nil"
    /\ feeds[lastOp.id].plugin = "p9" /\ feeds[lastOp.id].url = "u6"
    /\ \E i \in FeedIDs : feeds[i].plugin = "p3" /\ feeds[i].url = "u2"

(***************************************************************************)
(* C15: a successful AddFeed request without folder_id leaves the feed a   *)
(* member of the requesting user's folder named "default", when the        *)
(* request created the feed and when it found the feed existing.           *)
(***************************************************************************)
InDefaultFolder(user, id) ==
    \E f \in 1..Len(folders') :
        /\ folders'[f].user_id = user /\ folders'[f].name = DefaultFolderName
        /\ <<user, f, id>> \in feedFolders'

C15_DefaultFolder ==
    [][\A a \in Callers :
          (/\ apc[a] \in {"check", "store"} /\ apc'[a] = "idle"
           /\ areq[a].FolderID = NoID
           /\ lastOp'.res = "nil")
              => InDefaultFolder(UserOf(areq[a].key), lastOp'.id)]_vars

(***************************************************************************)
(* C16: when a feed with the url and the plugin exists, the AddFeed        *)
(* request does not go on to ConfigCreator; it answers with the id and the *)
(* title of that feed, has put the feed into the folder the request names, *)
(* for the requesting user, and has added no feed and no scrape.           *)
(***************************************************************************)
C16_ExistingFeed ==
    [][\A a \in Callers :
          /\ (apc[a] = "check" /\ apc'[a] = "create")
                => ExistingFeeds(aplugin[a], areq[a].URL) = {}
          /\ (apc[a] = "check" /\ apc'[a] = "idle" /\ lastOp'.res = "nil")
                => /\ lastOp'.id \in ExistingFeeds(aplugin[a], areq[a].URL)
                   /\ lastOp'.fact.Title = feeds[lastOp'.id].title
                   /\ areq[a].FolderID # NoID
                         => <<UserOf(areq[a].key), areq[a].FolderID, lastOp'.id>>
                               \in feedFolders'
                   /\ \A m \in feedFolders' \ feedFolders :
                         m[1] = UserOf(areq[a].key) /\ m[3] = lastOp'.id
                   /\ feeds' = feeds /\ scrapes' = scrapes
                   /\ aplugin[a] \notin Elems(attempts[a])]_vars

C16_Witness ==
    /\ lastOp.op = "FeedAPI.AddFeed" /\ lastOp.via = "exists"
    /\ \E f \in FolderIDs :
          /\ folders[f].user_id = "b"
          /\ <<"b", f, lastOp.id>> \in feedFolders
    /\ \E f \in FolderIDs : <<"a", f, lastOp.id>> \in feedFolders
    /\ Len(scrapes) = Len(feeds)

(***************************************************************************)
(* C17: the store's AddFeed is all or nothing.  When it returns an id it   *)
(* has added exactly one feed row, one feed_folders row, which is for the  *)
(* user of the session and that feed, and one scrape, which is of that     *)
(* feed and WAITING; when it returns an error the feeds, feed_folders and  *)
(* scrapes tables are as before the call.                                  *)
(***************************************************************************)
C17_AddFeedAtomic ==
    [][\A a \in Callers :
          (apc[a] = "store" /\ apc'[a] = "idle")
              => /\ lastOp'.op = "AddFeed"
                 /\ lastOp'.res = "nil" =>
                       /\ lastOp'.id = Len(feeds) + 1
                       /\ feeds' = Append(feeds, feeds'[lastOp'.id])
                       /\ feedFolders \subseteq feedFolders'
                       /\ Cardinality(feedFolders' \ feedFolders) = 1
                       /\ \A m \in feedFolders' \ feedFolders :
                             /\ m[1] = UserOf(areq[a].key)
                             /\ m[3] = lastOp'.id
                       /\ scrapes' = Append(scrapes, scrapes'[Len(scrapes')])
                       /\ scrapes'[Len(scrapes')].feed_id = lastOp'.id
                       /\ scrapes'[Len(scrapes')].state = "WAITING"
                 /\ lastOp'.res # "nil" =>
                       /\ lastOp'.res = "err"
                       /\ UNCHANGED <<feeds, feedFolders, scrapes>>]_vars

C17_Witness ==
    /\ lastOp.op = "AddFeed" /\ lastOp.res = "err"
    /\ apc["a1"] = "idle"
    /\ Len(feeds) = 1 /\ Len(scrapes) = 1 /\ Cardinality(feedFolders) = 1
    /\ Len(folders) = 2

(***************************************************************************)
(* C18: a login token is one-time-use.  Over all calls of                  *)
(* ActivateLoginToken for a token at most one returns the user id, which   *)
(* is the user the token was created for; every other call fails with      *)
(* "token invalid"; a call for a token that has expired (expires_at <=     *)
(* now()) never succeeds.                                                  *)
(***************************************************************************)
C18_TokenOneTimeUse ==
    [][/\ \A t \in 1..Len(activated') : activated'[t] <= 1
       /\ lastOp'.op = "ActivateLoginToken" =>
             IF lastOp'.res = "nil"
             THEN /\ lastOp'.id \in 1..Len(loginTokens)
                  /\ loginTokens[lastOp'.id].expires_at > now
                  /\ lastOp'.via = loginTokens[lastOp'.id].user_id
                  /\ activated[lastOp'.id] = 0
             ELSE /\ lastOp'.res = "token invalid"
                  /\ UNCHANGED loginTokens]_vars

C18_Witness ==
    /\ lastOp.op = "ActivateLoginToken" /\ lastOp.res = "token invalid"
    /\ lastOp.id \in 1..Len(loginTokens)
    /\ activated[lastOp.id] = 1
    /\ loginTokens[lastOp.id].expires_at > now
    /\ \E t \in 1..Len(loginTokens) :
          loginTokens[t].expires_at <= now /\ activated[t] = 0

(***************************************************************************)
(* C19: DeactivateSession(key) leaves the session of that key inactive; a  *)
(* session that is inactive stays so under every store operation; and      *)
(* VerifyKey(key) returns nil exactly for a key of an existing session     *)
(* with active = true, "invalid or inactive token" otherwise.  So after    *)
(* DeactivateSession(key) every VerifyKey(key) fails.                      *)
(***************************************************************************)
C19_DeactivatedStaysInvalid ==
    [][/\ lastOp'.op = "DeactivateSession" =>
             (lastOp'.via \in DOMAIN sessions => ~sessions'[lastOp'.via].active)
       /\ \A k \in DOMAIN sessions :
             ~sessions[k].active => (k \in DOMAIN sessions' /\ ~sessions'[k].active)
       /\ lastOp'.op = "VerifyKey" =>
             /\ lastOp'.res = "nil" <=>
                   (lastOp'.via \in DOMAIN sessions /\ sessions[lastOp'.via].active)
             /\ lastOp'.res # "nil" => lastOp'.res = "invalid or inactive token"]_vars

C19_Witness ==
    /\ lastOp.op = "VerifyKey" /\ lastOp.res = "invalid or inactive token"
    /\ lastOp.via \in DOMAIN sessions
    /\ ~sessions[lastOp.via].active
    /\ \E k \in DOMAIN sessions : sessions[k].active /\ k # "k1"

(***************************************************************************)
(* C20: RemoveFeed(sessionKey, folderID, feedID) removes the membership    *)
(* of that feed in that folder of the session's user and nothing else:     *)
(* feeds, posts, scrapes and folders are unchanged, and every membership   *)
(* of another user, another folder or another feed stays.                  *)
(***************************************************************************)
C20_RemoveFeedFrame ==
    [][/\ lastOp'.op = "RemoveFeed" =>
             /\ UNCHANGED <<feeds, posts, scrapes, folders, sessions>>
             /\ feedFolders' \subseteq feedFolders
             /\ Cardinality(feedFolders \ feedFolders') <= 1
             /\ \A m \in feedFolders \ feedFolders' :
                   /\ lastOp'.via \in DOMAIN sessions
                   /\ m[1] = UserOf(lastOp'.via)
                   /\ m[3] = lastOp'.id
       /\ \A key \in SessionKeys, folderID \in FolderIDs, feedID \in FeedIDs :
             FeedAPI_RemoveFeed(key, folderID, feedID) =>
                feedFolders' = feedFolders \
                   {<<sessions[k].user_id, folderID, feedID>> :
                       k \in {key} \cap DOMAIN sessions}]_vars

C20_Witness ==
    /\ lastOp.op = "RemoveFeed" /\ lastOp.res = "nil" /\ lastOp.via = "k1"
    /\ lastOp.id = 1
    /\ feedFolders = {<<folders[f].user_id, f, id>> : f \in 1..3, id \in 1..2}
                        \ {<<"a", 1, 1>>}

(***************************************************************************)
(* C21: one AddFeed request makes at most maxFailedResolutions failed      *)
(* ConfigCreator attempts: whenever the request is about to call a         *)
(* plugin's ConfigCreator, fewer than maxFailedResolutions attempts of     *)
(* the request have failed before, so that there is no 9th attempt.        *)
(***************************************************************************)
C21_NoNinthAttempt ==
    \A a \in Callers :
       apc[a] = "create" => Len(attempts[a]) < maxFailedResolutions

(***************************************************************************)
(* C22: EndScrape(id, datums, retries, tasks) changes only the scrape with *)
(* that id: its state becomes SUCCESS, its ended_at now(), its totals the  *)
(* three arguments, its other columns stay; every other scrape and every   *)
(* other table is unchanged; with no scrape of that id it returns an error *)
(* and changes nothing.                                                    *)
(***************************************************************************)
C22_EndScrapeFrame ==
    [][/\ lastOp'.op = "EndScrape" =>
             /\ Len(scrapes') = Len(scrapes)
             /\ \A i \in ScrapeIDs \ {lastOp'.id} : scrapes'[i] = scrapes[i]
             /\ UNCHANGED <<sessions, folders, feeds, feedFolders, posts>>
             /\ lastOp'.res = "nil" <=> lastOp'.id \in ScrapeIDs
             /\ lastOp'.id \notin ScrapeIDs => UNCHANGED scrapes
             /\ lastOp'.id \in ScrapeIDs =>
                   /\ scrapes'[lastOp'.id].state = "SUCCESS"
                   /\ scrapes'[lastOp'.id].ended_at = <<now>>
                   /\ \A col \in {"feed_id", "plugin", "config", "scheduled_start_at",
                                  "started_at", "errors"} :
                         scrapes'[lastOp'.id][col] = scrapes[lastOp'.id][col]
       /\ \A id \in ScrapeIDs, c \in Counters :
             EndScrape(id, c[1], c[2], c[3]) =>
                /\ scrapes'[id].total_datums = c[1]
                /\ scrapes'[id].total_retries = c[2]
                /\ scrapes'[id].total_tasks = c[3]]_vars

C22_Witness ==
    /\ lastOp.op = "EndScrape" /\ lastOp.res = "nil"
    /\ lastOp.id \in ScrapeIDs
    /\ scrapes[lastOp.id].state = "SUCCESS"
    /\ scrapes[lastOp.id].total_datums > 0
    /\ \E i \in ScrapeIDs : scrapes[i].state = "RUNNING"

(***************************************************************************)
(* C23: no scrape stays RUNNING forever: a scrape that StartScrapes has    *)
(* moved to RUNNING reaches SUCCESS or ERRORED, provided its worker        *)
(* reports the outcome through EndScrape or ErrorScrape.                   *)
(***************************************************************************)
C23_NoScrapeRunsForever ==
    \A id \in 1..MaxScrapes :
       (id \in ScrapeIDs /\ scrapes[id].state = "RUNNING")
          ~> (scrapes[id].state \in {"SUCCESS", "ERRORED"})

(***************************************************************************)
(* C24: GetFeedPosts and GetPost return no post for a key that matches no  *)
(* session or whose session has been deactivated.                          *)
(***************************************************************************)
C24_ReadsNeedActiveSession ==
    /\ (/\ lastOp.op = "GetPost"
        /\ (lastOp.via \notin DOMAIN sessions \/ ~sessions[lastOp.via].active))
          => GetPost(lastOp.via, lastOp.id) = <<>>
    /\ (/\ lastOp.op = "GetFeedPosts"
        /\ (lastOp.via \notin DOMAIN sessions \/ ~sessions[lastOp.via].active))
          => GetFeedPosts(lastOp.via, lastOp.id, Len(posts), 0) = <<>>

(***************************************************************************)
(* C25: read status is per user and MarkRead is idempotent.  After         *)
(* MarkRead(key of user A, p) has returned nil, GetPost and GetFeedPosts   *)
(* with that key show p as read; what GetPost and GetFeedPosts return to   *)
(* the session of any other user is what they returned before; and when A  *)
(* had read p already the call changes nothing and returns nil.            *)
(***************************************************************************)
C25_ReadPerUser ==
    [][lastOp'.op = "MarkRead" => \A key \in ReadKeys, p \in PostIDs :
          (lastOp'.via = key /\ lastOp'.id = p) =>
             /\ UNCHANGED <<posts, sessions>>
             /\ key \in DOMAIN sessions =>
                   /\ lastOp'.res = "nil"
                   /\ GetPost(key, p)'[1].Read
                   /\ LET got == GetFeedPosts(key, posts[p].feed_id, Len(posts), 0)'
                      IN  \E n \in 1..Len(got) : got[n].ID = p /\ got[n].Read
                   /\ <<UserOf(key), p>> \in readStatuses => UNCHANGED readStatuses
             /\ \A k \in DOMAIN sessions :
                   (key \in DOMAIN sessions => UserOf(k) # UserOf(key)) =>
                      /\ \A q \in PostIDs : GetPost(k, q)' = GetPost(k, q)
                      /\ \A f \in FeedIDs :
                            GetFeedPosts(k, f, Len(posts), 0)'
                               = GetFeedPosts(k, f, Len(posts), 0)]_vars

C25_Witness ==
    /\ lastOp.op = "MarkRead" /\ lastOp.res = "nil" /\ lastOp.via = "k3"
    /\ lastOp.id \in PostIDs
    /\ GetPost("k1", lastOp.id)[1].Read
    /\ ~GetPost("k2", lastOp.id)[1].Read
    /\ \E q \in PostIDs : GetPost("k2", q)[1].Read /\ ~GetPost("k1", q)[1].Read

(***************************************************************************)
(* C26: whatever the interleaving of concurrent AddFeed requests for the   *)
(* same url resolved to the same plugin, at most one feed row has that     *)
(* (plugin, url), and at most one initial scrape was created for it.       *)
(***************************************************************************)
C26_OneFeedPerPluginURL ==
    /\ \A i, j \in FeedIDs :
          (feeds[i].plugin = feeds[j].plugin /\ feeds[i].url = feeds[j].url) => i = j
    /\ \A plugin \in Elems(Registry), url \in EntryURLs :
          Cardinality({n \in ScrapeIDs :
                          /\ feeds[scrapes[n].feed_id].plugin = plugin
                          /\ feeds[scrapes[n].feed_id].url = url}) <= 1

(***************************************************************************)
(* C27: a Write that refreshes the row of its url leaves the row's id,     *)
(* feed_id and posted_at as they were, and every other row untouched: the  *)
(* post stays in the feed that wrote it first and GetFeedPosts lists it    *)
(* under no other feed, also when the refreshing scrape is of another      *)
(* feed.                                                                   *)
(***************************************************************************)
C27_RefreshKeepsFeed ==
    [][(lastOp'.op = "Write" /\ lastOp'.via = "refreshed") =>
          /\ Len(posts') = Len(posts)
          /\ \A i \in PostIDs :
                IF posts[i].url = lastOp'.fact.OriginalURL
                THEN /\ posts'[i].url = posts[i].url
                     /\ posts'[i].feed_id = posts[i].feed_id
                     /\ posts'[i].posted_at = posts[i].posted_at
                     /\ posts'[i].title = lastOp'.fact.Title
                     /\ \A fd \in FeedIDs \ {posts[i].feed_id} :
                           LET got == GetFeedPosts("k1", fd, Len(posts), 0)'
                           IN  \A n \in 1..Len(got) : got[n].ID # i
                ELSE posts'[i] = posts[i]]_vars

C27_Witness ==
    /\ lastOp.op = "Write" /\ lastOp.via = "refreshed" /\ lastOp.res = "nil"
    /\ \E i \in PostIDs :
          /\ posts[i].url = lastOp.fact.OriginalURL
          /\ posts[i].title = lastOp.fact.Title
          /\ posts[i].feed_id # scrapes[lastOp.id].feed_id
          /\ posts[i].posted_at # lastOp.fact.PostedAt

====
